---- MODULE Spec2Model ----
(***************************************************************************)
(* FlightTracker: the retrying Supabase client (src/src/types.ts, the      *)
(* supabase module), the data-access facade (src/src/lib/db.ts) and the    *)
(* flights table with its trigger and constraints (supabase/migrations).   *)
(*                                                                         *)
(* One step of the client model is one run-to-completion segment of the    *)
(* JavaScript event loop: the code between two awaits runs atomically, and *)
(* navigator.onLine changes only between segments.                         *)
(***************************************************************************)
EXTENDS Integers, Sequences, FiniteSets, TLC

(***************************************************************************)
(* Retry configuration (types.ts 69-72).                                   *)
(***************************************************************************)
MAX_RETRIES == 3
INITIAL_RETRY_DELAY == 1000
MAX_RETRY_DELAY == 5000

\* Cap on the executions of one invocation that the model follows; the code
\* stays below it, a defective retry loop would not.
ExecCap == 5

Null == "null"
NoCode == "nocode"

Min(a, b) == IF a <= b THEN a ELSE b

(***************************************************************************)
(* Messages are sequences of words and punctuation marks; includes() is    *)
(* the test for a contiguous subsequence and toLowerCase() maps each word. *)
(***************************************************************************)
Includes(msg, pat) ==
  \E i \in 1..(Len(msg) - Len(pat) + 1) : SubSeq(msg, i, i + Len(pat) - 1) = pat

LowerWord(w) ==
  CASE w = "Failed" -> "failed"
    [] w = "Network" -> "network"
    [] w = "Error" -> "error"
    [] w = "Service" -> "service"
    [] w = "Unavailable" -> "unavailable"
    [] w = "Flight" -> "flight"
    [] w = "TypeError" -> "typeerror"
    [] OTHER -> w

toLowerCase(msg) == [i \in DOMAIN msg |-> LowerWord(msg[i])]

\* An error value: its class, its message ("" and undefined are <<>>) and
\* its code.  NoError is null / undefined.
NoError == [type |-> "none", message |-> <<>>, code |-> NoCode]

Err(t, m, c) == [type |-> t, message |-> m, code |-> c]

\* The error values the backend call is made to throw or return.
Errors ==
  { Err("Error", <<"timeout">>, NoCode),
    Err("Error", <<"network", "error">>, NoCode),
    Err("TypeError", <<"Failed", "to", "fetch">>, NoCode),
    Err("PostgrestError", <<"permission", "denied">>, "42501"),
    Err("PostgrestError", <<"not", "found">>, NoCode),
    Err("PostgrestError", <<"Service", "Unavailable">>, "503"),
    Err("PostgrestError", <<>>, "PGRST301"),
    Err("PostgrestError",
        <<"Flight", "dates", "overlap", "with", "existing", "flight">>, "P0001"),
    Err("PostgrestError",
        <<"violates", "check", "constraint", "flights_airports_check">>, "23514") }

(***************************************************************************)
(* isRetryableError (types.ts 78-109), with navigator.onLine a parameter.  *)
(* Its falsy results (false, undefined, '') are FALSE.                     *)
(***************************************************************************)
retryableMessages ==
  { <<"network", "error">>, <<"timeout">>, <<"connection", "refused">>,
    <<"socket", "hang", "up">>, <<"econnrefused">>, <<"etimedout">>,
    <<"failed", "to", "fetch">> }

retryableCodes == {"PGRST301", "503", "504", "408", "429"}

isRetryableErrorAlways(error, onLine) == error.type # "none"

isRetryableError(error, onLine) ==
  IF error.type = "none" THEN FALSE
  ELSE IF error.type = "TypeError" \/ ~onLine THEN TRUE
  ELSE IF /\ error.message # <<>>
          /\ \E msg \in retryableMessages : Includes(toLowerCase(error.message), msg)
       THEN TRUE
  ELSE error.code # NoCode /\ error.code \in retryableCodes

(***************************************************************************)
(* The retry loop of the proxied function (types.ts 144-204).              *)
(***************************************************************************)
\* while (attempt < MAX_RETRIES)                                 (line 148)
LoopCond(a) == a < MAX_RETRIES

\* if (!navigator.onLine) await the 'online' event          (lines 151-159)
NeedsOnlineWaitNever(onLine) == FALSE

NeedsOnlineWait(onLine) == ~onLine

\* attempt < MAX_RETRIES - 1 && isRetryableError(error)          (line 175)
ShouldRetryAnyError(a, error, onLine) == a < MAX_RETRIES - 1

ShouldRetry(a, error, onLine) ==
  a < MAX_RETRIES - 1 /\ isRetryableError(error, onLine)

\* A backoff that does not grow.
RetryDelayConstant(a) == Min(INITIAL_RETRY_DELAY, MAX_RETRY_DELAY)

\* Math.min(INITIAL_RETRY_DELAY * Math.pow(2, attempt), MAX_RETRY_DELAY)
RetryDelay(a) == Min(INITIAL_RETRY_DELAY * (2 ^ a), MAX_RETRY_DELAY)

\* attempt++                                                     (line 187)
NextAttemptStuck(a) == a

NextAttempt(a) == a + 1

\* lastError?.message || 'An unknown error occurred', wrapped   (195-198)
FormattedError(lastErr) ==
  Err("Error",
      <<"Database", "operation", "failed", ":">>
        \o (IF lastErr.message # <<>> THEN lastErr.message
            ELSE <<"An", "unknown", "error", "occurred">>)
        \o <<".", "Please", "check", "your", "connection", "and", "try",
             "again", ".">>,
      NoCode)

\* What the invocation hands to its caller after the loop     (lines 200-203)
FailureRethrown(lastErr) ==
  [kind |-> "raised", data |-> Null, error |-> lastErr]

Failure(lastErr) ==
  [kind |-> "resolved", data |-> Null, error |-> FormattedError(lastErr)]

\* return result                                            (lines 168, 171)
Returned(res) == [kind |-> "resolved", data |-> res.data, error |-> res.error]

NoOutcome == [kind |-> "pending", data |-> Null, error |-> NoError]

\* What the awaited backend call yields: a {data, error} result.  The query
\* builder resolves with data null whenever it sets error.
Results ==
  {[data |-> "rows", error |-> NoError]} \cup {[data |-> Null, error |-> e] : e \in Errors}

(***************************************************************************)
(* The facade (src/src/lib/db.ts).                                         *)
(***************************************************************************)
MsgGeneric == "An error occurred while accessing the database."
MsgOverlap == "This flight overlaps with another flight for the same aircraft."
MsgNotFound == "The requested record was not found."
MsgPermission == "You do not have permission to perform this action."
MsgConnectivity ==
  "Unable to connect to the database. Please check your internet connection."

\* handleDbError (db.ts 5-27): String.includes is case-sensitive.
handleDbError(error) ==
  IF error.message = <<>> THEN MsgGeneric
  ELSE IF Includes(error.message, <<"dates", "overlap">>) THEN MsgOverlap
  ELSE IF Includes(error.message, <<"not", "found">>) THEN MsgNotFound
  ELSE IF Includes(error.message, <<"permission", "denied">>) THEN MsgPermission
  ELSE IF Includes(error.message, <<"network">>) THEN MsgConnectivity
  ELSE MsgGeneric

\* dbQuery (db.ts 30-46) applied to a settled query promise.
dbQuery(settled) ==
  IF settled.kind = "raised"
    THEN [state |-> "resolved", data |-> Null, error |-> handleDbError(settled.error)]
  ELSE IF settled.error.type # "none"
    THEN [state |-> "resolved", data |-> Null, error |-> handleDbError(settled.error)]
  ELSE [state |-> "resolved", data |-> settled.data, error |-> Null]

\* The method chain each db.* entity operation evaluates on the value of
\* supabase.from(table), before dbQuery is called with the result (db.ts 70-264).
Chains ==
  [ flights_getAll |-> <<"select", "order">>,
    flights_getById |-> <<"select", "eq", "single">>,
    flights_create |-> <<"insert", "select", "single">>,
    flights_update |-> <<"update", "eq", "select", "single">>,
    flights_delete |-> <<"delete", "eq">>,
    companies_getAll |-> <<"select", "order">>,
    companies_getById |-> <<"select", "eq", "single">>,
    companies_create |-> <<"insert", "select", "single">>,
    companies_update |-> <<"update", "eq", "select", "single">>,
    tasks_getByFlight |-> <<"select", "eq", "order">>,
    tasks_create |-> <<"insert", "select", "single">>,
    tasks_update |-> <<"update", "eq", "select", "single">>,
    tasks_delete |-> <<"delete", "eq">>,
    companyTails_getByCompany |-> <<"select", "eq", "single">>,
    companyTails_create |-> <<"insert", "select", "single">>,
    companyTails_delete |-> <<"delete", "eq", "eq">>,
    auditLogs_create |-> <<"insert", "select">> ]

FacadeOps == DOMAIN Chains

\* The properties a native Promise has.
PromiseProps == {"then", "catch", "finally"}

\* createRetryProxy's get trap (types.ts 134-144) hands out, for every
\* function property of the builder, an async function: calling the first
\* method of a chain yields a Promise, and the next name of the chain is
\* looked up on that Promise.  A name a Promise does not have is undefined,
\* and calling it throws a TypeError while the argument of dbQuery is still
\* being evaluated, outside dbQuery's try block.
ChainThrows(chain) == Len(chain) >= 2 /\ chain[2] \notin PromiseProps

NoFacade == [state |-> "none", data |-> Null, error |-> Null]
FacadePending == [state |-> "pending", data |-> Null, error |-> Null]
FacadeRejected == [state |-> "rejected", data |-> Null, error |-> "TypeError"]

(***************************************************************************)
(* State of the client: one invocation of a proxied builder method.        *)
(***************************************************************************)
VARIABLES
  online,      \* navigator.onLine
  pc,          \* idle | wait_online | executing | waiting | done
  attempt,     \* the loop's attempt
  lastError,   \* the loop's lastError
  outcome,     \* what the invocation handed to its caller
  facade,      \* what the db.* operation that made the invocation handed back
  execCount,   \* history: executions of the backend operation
  delays,      \* history: the waits performed, in order
  starts,      \* history: one record per execution started
  fails        \* history: per failed attempt, how it failed and the verdict on it

VARIABLES
  cError,     \* the error value handed to isRetryableError
  cOnline,    \* navigator.onLine at the call
  cApplied,   \* whether the call has been made
  cVerdict    \* what it returned

classVars == <<cError, cOnline, cApplied, cVerdict>>

VARIABLES
  flights,    \* the rows of table flights
  lastWrite   \* the last write statement and how it ended

dbVars == <<flights, lastWrite>>

VARIABLES
  committed,  \* the rows of table flights that committed transactions wrote
  tx          \* per client, the write statement its open transaction is in

concVars == <<committed, tx>>

VARIABLES
  fRows,      \* the rows of table flights behind the form
  fAudit,     \* the rows of table audit_logs, in insertion order
  form,       \* the FlightModal: open or closed, its flight prop, its last report
  req         \* the proxied flights write the modal last invoked

formVars == <<fRows, fAudit, form, req>>

VARIABLES
  flightIds,      \* the ids of the rows of flights
  flight_tasks,   \* rows of flight_tasks: id, flight_id
  audit_logs,     \* rows of audit_logs: id, flight_id
  flight_locks,   \* rows of flight_locks: flight_id, user_id
  companies,      \* the ids of the rows of companies
  company_tails,  \* rows of company_tails: company_id, tail_number
  lastStmt        \* the last statement and how it ended

schemaVars == <<flightIds, flight_tasks, audit_logs, flight_locks, companies,
                company_tails, lastStmt>>

VARIABLES
  lockRows,   \* the committed rows of flight_locks: flight_id, user_id, locked_at
  lockTx,     \* each user's open transaction on flight_locks
  now,        \* the database clock, in minutes
  lastLock    \* the last statement on flight_locks and how it ended

lockVars == <<lockRows, lockTx, now, lastLock>>

\* -- the further components: variables --
VARIABLES
  tRows,   \* the rows of flights the statement finds
  tWrite,   \* the statement: its event and the row NEW
  tVerdict   \* how the statement ended, "none" before it ran

trigVars == <<tRows, tWrite, tVerdict>>

VARIABLES
  aDb,   \* flights and flight_tasks, with flight_locks as it is
  aLocks,   \* the rows of flight_locks: flight_id, user_id
  bDb,   \* flights and flight_tasks after the same operations with flight_locks empty
  aLast,   \* the last operation and its outcome
  bLast   \* its outcome with flight_locks empty

advVars == <<aDb, aLocks, bDb, aLast, bLast>>

VARIABLES
  fRun,   \* each fetchData run: where it is and what db.flights.getAll gave it
  fQuery,   \* each run's select request: sent, answered, and the rows returned
  fTable,   \* the content of flights at the backend
  fShown   \* the App's state: flights, error, loading

fetchVars == <<fRun, fQuery, fTable, fShown>>

VARIABLES
  lRows,   \* the rows of the listed table: id and sort key
  lAnswers   \* the answers to the list query since the last write

listVars == <<lRows, lAnswers>>

VARIABLES
  dKind,   \* the table the create inserts into
  dPc,   \* the invocation: idle, executing, waiting, done
  dAttempt,   \* attempt of the retry loop
  dLog,   \* what became of each attempt: whether it reached the backend, whether its response arrived
  dCommitted   \* the rows the backend committed for this create

dupVars == <<dKind, dPc, dAttempt, dLog, dCommitted>>

VARIABLES
  cStored,   \* company_tails: the tail numbers stored for each company
  cCompany,   \* the company prop of the modal, "none" for a new company
  cPc,   \* the modal: closed or editing
  cForm,   \* the tails state of the form
  cSubmitted,   \* the tails of the form at the last submission
  cResult   \* how the last submission ended

compVars == <<cStored, cCompany, cPc, cForm, cSubmitted, cResult>>

VARIABLES
  iVariant,   \* which form of the effect the App has
  iMounted,   \* the effect's mounted flag
  iPc,   \* initializeAuth: idle, calling, waiting, stopped
  iRetry,   \* retryCount of the current call of initializeAuth
  iCalls,   \* calls of the auth service made so far
  iWaits,   \* the delays of the retry timers set so far
  iApp,   \* the App's state: loading, session, authError
  iAnswer,   \* what the last auth call gave, "none" before the first
  iSubscribed   \* the onAuthStateChange callback is registered

authVars == <<iVariant, iMounted, iPc, iRetry, iCalls, iWaits, iApp, iAnswer,
    iSubscribed>>

moreVars == <<trigVars, advVars, fetchVars, listVars, dupVars, compVars, authVars>>
\* -- end of the further components: variables --

\* The parts of the system added to the three above.
extVars == <<concVars, formVars, schemaVars, lockVars, moreVars>>


retryVars == <<online, pc, attempt, lastError, outcome, facade, execCount,
               delays, starts, fails>>

\* What a step of one part of the system leaves alone.
notRetry == <<classVars, dbVars, extVars>>
notClass == <<retryVars, dbVars, extVars>>
notDb == <<retryVars, classVars, extVars>>
notConc == <<retryVars, classVars, dbVars, formVars, schemaVars, lockVars, moreVars>>
notForm == <<retryVars, classVars, dbVars, concVars, schemaVars, lockVars, moreVars>>
notSchema == <<retryVars, classVars, dbVars, concVars, formVars, lockVars, moreVars>>
notLock == <<retryVars, classVars, dbVars, concVars, formVars, schemaVars, moreVars>>

\* -- the further components: frames --
oldVars == <<retryVars, classVars, dbVars, concVars, formVars, schemaVars,
    lockVars>>
notTrig == <<oldVars, advVars, fetchVars, listVars, dupVars, compVars, authVars>>
notAdv == <<oldVars, trigVars, fetchVars, listVars, dupVars, compVars, authVars>>
notFetch == <<oldVars, trigVars, advVars, listVars, dupVars, compVars, authVars>>
notList == <<oldVars, trigVars, advVars, fetchVars, dupVars, compVars, authVars>>
notDup == <<oldVars, trigVars, advVars, fetchVars, listVars, compVars, authVars>>
notComp == <<oldVars, trigVars, advVars, fetchVars, listVars, dupVars, authVars>>
notAuth == <<oldVars, trigVars, advVars, fetchVars, listVars, dupVars, compVars>>
\* -- end of the further components: frames --


RetryInit ==
  /\ online \in BOOLEAN
  /\ pc = "idle"
  /\ attempt = 0
  /\ lastError = NoError
  /\ outcome = NoOutcome
  /\ facade = NoFacade
  /\ execCount = 0
  /\ delays = <<>>
  /\ starts = <<>>
  /\ fails = <<>>

\* The invocation returns `out`; a dbQuery awaiting it continues.
Settle(out, fac) ==
  /\ pc' = "done"
  /\ outcome' = out
  /\ facade' = IF fac.state = "pending" THEN dbQuery(out) ELSE fac

\* The top of the while loop with attempt a (lines 148-162), run up to its
\* first await: leave the loop, wait for 'online', or execute the query.
EnterLoop(a, le, ec, st, fac, onLine) ==
  IF ~LoopCond(a)
    THEN Settle(Failure(le), fac) /\ execCount' = ec /\ starts' = st
  ELSE IF NeedsOnlineWait(onLine)
    THEN /\ pc' = "wait_online"
         /\ outcome' = NoOutcome
         /\ facade' = fac
         /\ execCount' = ec
         /\ starts' = st
  ELSE /\ pc' = "executing"
       /\ outcome' = NoOutcome
       /\ facade' = fac
       /\ execCount' = ec + 1
       /\ starts' = Append(st, [attempt |-> a, onLine |-> onLine,
                                sawOffline |-> FALSE, afterEvent |-> FALSE])

Begin(fac) ==
  /\ pc \in {"idle", "done"}
  /\ attempt' = 0
  /\ lastError' = NoError
  /\ delays' = <<>>
  /\ fails' = <<>>
  /\ UNCHANGED online
  /\ EnterLoop(0, NoError, 0, <<>>, fac, online)
  /\ UNCHANGED notRetry

\* A db.* operation is called (db.ts 70-264): the first method of its chain
\* is invoked on the proxy, then the rest of the chain is evaluated.
FacadeCall(o) ==
  /\ o \in FacadeOps
  /\ Begin(IF ChainThrows(Chains[o]) THEN FacadeRejected ELSE FacadePending)

\* A component awaits a single proxied method, as in
\* await supabase.from('audit_logs').insert({...}) (FlightModal.tsx 234).
DirectCall ==
  /\ Begin(NoFacade)

\* catch (error) (lines 172-191): wait and retry, or break and return the
\* formatted failure.
Catch(error, how) ==
  /\ lastError' = error
  /\ fails' = Append(fails, [how |-> how,
                              retryable |-> isRetryableError(error, online)])
  /\ IF ShouldRetry(attempt, error, online)
       THEN /\ pc' = "waiting"
            /\ delays' = Append(delays, RetryDelay(attempt))
            /\ UNCHANGED <<outcome, facade>>
       ELSE /\ Settle(Failure(error), facade)
            /\ UNCHANGED delays
  /\ UNCHANGED <<online, attempt, execCount, starts>>
  /\ UNCHANGED notRetry

\* The awaited backend call resolves with res (lines 162-171).
BackendReturns(res) ==
  /\ pc = "executing"
  /\ IF res.error.type # "none" /\ isRetryableError(res.error, online)
       THEN Catch(res.error, "returned")
       ELSE /\ Settle(Returned(res), facade)
            /\ fails' = IF res.error.type # "none"
                          THEN Append(fails, [how |-> "returned", retryable |-> FALSE])
                          ELSE fails
            /\ UNCHANGED <<online, attempt, lastError, execCount, delays, starts>>
  /\ UNCHANGED notRetry

\* The awaited backend call rejects with error e.
BackendThrows(e) ==
  /\ pc = "executing"
  /\ Catch(e, "thrown")

\* await wait(delay) is over: attempt++ and the loop is entered again.
TimerFires ==
  /\ pc = "waiting"
  /\ execCount < ExecCap
  /\ attempt' = NextAttempt(attempt)
  /\ EnterLoop(NextAttempt(attempt), lastError, execCount, starts, facade, online)
  /\ UNCHANGED <<online, lastError, delays, fails>>
  /\ UNCHANGED notRetry

\* What the 'online' listener of lines 153-157 does to a suspended invocation.
ResumeOnOnlineNever(p) == p

ResumeOnOnline(p) == IF p = "wait_online" THEN "executing" ELSE p

\* Connectivity returns: navigator.onLine becomes true and 'online' fires.
GoOnline ==
  /\ ~online
  /\ online' = TRUE
  /\ pc' = ResumeOnOnline(pc)
  /\ IF pc = "wait_online" /\ pc' = "executing"
       THEN /\ execCount' = execCount + 1
            /\ starts' = Append(starts, [attempt |-> attempt, onLine |-> TRUE,
                                         sawOffline |-> TRUE, afterEvent |-> TRUE])
       ELSE UNCHANGED <<execCount, starts>>
  /\ UNCHANGED <<attempt, lastError, outcome, facade, delays, fails>>
  /\ UNCHANGED notRetry

\* Connectivity is lost.
GoOffline ==
  /\ online
  /\ online' = FALSE
  /\ UNCHANGED <<pc, attempt, lastError, outcome, facade, execCount, delays,
                 starts, fails>>
  /\ UNCHANGED notRetry

RetryNext ==
  \/ \E o \in FacadeOps : FacadeCall(o)
  \/ DirectCall
  \/ \E res \in Results : BackendReturns(res)
  \/ \E e \in Errors : BackendThrows(e)
  \/ TimerFires
  \/ GoOnline
  \/ GoOffline

(***************************************************************************)
(* The classifier on its own: isRetryableError applied to an error value   *)
(* under a connectivity state.                                             *)
(***************************************************************************)
ClassifierTypes == {"Error", "TypeError", "PostgrestError"}

ClassifierMessages ==
  { <<>>,
    <<"timeout">>,
    <<"request", "timeout", "exceeded">>,
    <<"network", "error">>,
    <<"Network", "Error">>,
    <<"failed", "to", "fetch">>,
    <<"TypeError", ":", "Failed", "to", "fetch">>,
    <<"permission", "denied">>,
    <<"not", "found">>,
    <<"Flight", "dates", "overlap", "with", "existing", "flight">> }

ClassifierCodes == {NoCode, "42501", "503", "PGRST301"}

ClassifierErrors ==
  {Err(t, m, c) : t \in ClassifierTypes, m \in ClassifierMessages, c \in ClassifierCodes}

ClassIdle ==
  /\ cError = NoError
  /\ cOnline = TRUE
  /\ cApplied = FALSE
  /\ cVerdict = FALSE

ClassInit ==
  /\ cError \in ClassifierErrors
  /\ cOnline \in BOOLEAN
  /\ cApplied = FALSE
  /\ cVerdict = FALSE

\* isRetryableError(error) is called.
Classify ==
  /\ ~cApplied
  /\ cApplied' = TRUE
  /\ cVerdict' = isRetryableError(cError, cOnline)
  /\ UNCHANGED <<cError, cOnline>>
  /\ UNCHANGED notClass

\* Another error value reaches the classifier, under another connectivity.
NextError ==
  /\ cApplied
  /\ cError' \in ClassifierErrors
  /\ cOnline' \in BOOLEAN
  /\ cApplied' = FALSE
  /\ cVerdict' = FALSE
  /\ UNCHANGED notClass

ClassNext == Classify \/ NextError

(***************************************************************************)
(* The flights table (supabase/migrations).                                *)
(***************************************************************************)
\* The flights the table is followed up to.
MaxFlights == 2

FlightIds == 1..MaxFlights
\* Instants: enough for overlapping, back-to-back and single-instant periods.
Times == {0, 1, 2}
Tails == {"N100", "N200"}
AirportPairs == {<<"KJFK", "KLAX">>, <<"KJFK", "KJFK">>}
StatusInputs == {"active", "cancelled", "pending"}

DbInit ==
  /\ flights = {}
  /\ lastWrite = [op |-> "none", outcome |-> "none"]

\* (s1, e1) OVERLAPS (s2, e2) of PostgreSQL (dusty_shrine.sql 43): each pair
\* is ordered, a pair with equal ends is a single instant, otherwise the
\* period is start <= t < end.
OverlapsOrdered(s1, e1, s2, e2) ==
  IF s1 > s2 THEN s1 < e2
  ELSE IF s1 < s2 THEN s2 < e1
  ELSE TRUE

Overlaps(s1, e1, s2, e2) ==
  OverlapsOrdered(Min(s1, e1), IF s1 <= e1 THEN e1 ELSE s1,
                  Min(s2, e2), IF s2 <= e2 THEN e2 ELSE s2)

\* validate_flight_dates (dusty_shrine.sql 33-50): TRUE when it raises for row new (NEW in the function).
validate_flight_dates(new, rows) ==
  \E f \in rows :
    /\ f.tail_number = new.tail_number
    /\ f.id # new.id
    /\ f.status = "active"
    /\ Overlaps(new.start_date, new.end_date, f.start_date, f.end_date)

\* validate_flight_dates_trigger: BEFORE INSERT OR UPDATE (lines 54-57).
TriggerEventsInsertOnly(event) == event = "INSERT"

TriggerEvents(event) == event \in {"INSERT", "UPDATE"}

\* A table with no CHECK constraint.
CheckViolationNone(new) == "ok"

\* The CHECK constraints of flights (dusty_shrine.sql 110-117).
CheckViolation(new) ==
  IF ~(new.end_date >= new.start_date) THEN "flights_dates_check"
  ELSE IF ~(new.start_airport # new.end_airport) THEN "flights_airports_check"
  ELSE IF ~(new.status \in {"active", "cancelled"}) THEN "flights_status_check"
  ELSE "ok"

\* How a row write ends: the BEFORE trigger, then the constraints.
WriteOutcome(event, new, rows) ==
  IF TriggerEvents(event) /\ validate_flight_dates(new, rows) THEN "overlap"
  ELSE CheckViolation(new)

\* id uuid DEFAULT gen_random_uuid(): an id no row has.
FreshId == CHOOSE i \in FlightIds : \A f \in flights : f.id # i

\* INSERT INTO flights.
InsertFlight(t, s, e, ap, st) ==
  /\ \E i \in FlightIds : \A f \in flights : f.id # i
  /\ LET new == [id |-> FreshId, tail_number |-> t, start_date |-> s,
                 end_date |-> e, start_airport |-> ap[1], end_airport |-> ap[2],
                 status |-> st]
         out == WriteOutcome("INSERT", new, flights)
     IN /\ flights' = IF out = "ok" THEN flights \cup {new} ELSE flights
        /\ lastWrite' = [op |-> "insert", outcome |-> out]
  /\ UNCHANGED notDb

\* UPDATE flights SET ... WHERE id = old.id, for the row new it produces.
UpdateFlight(old, new) ==
  /\ old \in flights
  /\ LET out == WriteOutcome("UPDATE", new, flights)
     IN /\ flights' = IF out = "ok" THEN (flights \ {old}) \cup {new} ELSE flights
        /\ lastWrite' = [op |-> "update", outcome |-> out]
  /\ UNCHANGED notDb

UpdateInterval(old, s, e) ==
  UpdateFlight(old, [old EXCEPT !.start_date = s, !.end_date = e])

UpdateTail(old, t) ==
  UpdateFlight(old, [old EXCEPT !.tail_number = t])

UpdateStatus(old, st) ==
  UpdateFlight(old, [old EXCEPT !.status = st])

UpdateEndAirport(old, a) ==
  UpdateFlight(old, [old EXCEPT !.end_airport = a])

\* DELETE FROM flights WHERE id = old.id.
DeleteFlight(old) ==
  /\ old \in flights
  /\ flights' = flights \ {old}
  /\ lastWrite' = [op |-> "delete", outcome |-> "ok"]
  /\ UNCHANGED notDb

DbNext ==
  \/ \E t \in Tails, s \in Times, e \in Times, ap \in AirportPairs, st \in StatusInputs :
       InsertFlight(t, s, e, ap, st)
  \/ \E old \in flights, s \in Times, e \in Times : UpdateInterval(old, s, e)
  \/ \E old \in flights, t \in Tails : UpdateTail(old, t)
  \/ \E old \in flights, st \in StatusInputs : UpdateStatus(old, st)
  \/ \E old \in flights, a \in {"KJFK", "KLAX"} : UpdateEndAirport(old, a)
  \/ \E old \in flights : DeleteFlight(old)

(***************************************************************************)
(* The flights table written by two clients at once.  PostgREST runs each  *)
(* request in a transaction of its own: the BEFORE trigger of the          *)
(* statement reads the rows committed so far, and the row the statement    *)
(* writes is seen by the other transaction only once it commits.           *)
(***************************************************************************)
Clients == {"A", "B"}

TxIdle == [phase |-> "idle", event |-> "none", old |-> Null, new |-> Null]

ConcInit ==
  /\ committed = {}
  /\ tx = [c \in Clients |-> TxIdle]

\* The ids of rows an open transaction has written or locked.
PendingIds(c) ==
  {tx[d].new.id : d \in {e \in Clients \ {c} : tx[e].phase = "written"}}

\* The statement of client c runs: trigger and constraints against the rows
\* committed so far; a statement that passes has written its row, not yet
\* visible to the other client.
TxStatement(c, event, old, new) ==
  /\ tx[c].phase = "idle"
  /\ new.id \notin PendingIds(c)
  /\ LET out == WriteOutcome(event, new, committed)
     IN tx' = [tx EXCEPT ![c] =
                 IF out = "ok"
                 THEN [phase |-> "written", event |-> event, old |-> old, new |-> new]
                 ELSE TxIdle]
  /\ UNCHANGED committed
  /\ UNCHANGED notConc

\* INSERT INTO flights by client c.
TxInsert(c, t, s, e, st) ==
  /\ \E i \in FlightIds : /\ \A f \in committed : f.id # i
                          /\ i \notin PendingIds(c)
                          /\ \A j \in FlightIds :
                               (j < i) => (j \in PendingIds(c) \/ \E f \in committed : f.id = j)
                          /\ TxStatement(c, "INSERT", Null,
                                [id |-> i, tail_number |-> t, start_date |-> s,
                                 end_date |-> e, start_airport |-> "KJFK",
                                 end_airport |-> "KLAX", status |-> st])

\* UPDATE flights SET start_date, end_date, status WHERE id = old.id by
\* client c; a row another open transaction has written is locked.
TxUpdate(c, old, s, e, st) ==
  /\ old \in committed
  /\ TxStatement(c, "UPDATE", old,
                 [old EXCEPT !.start_date = s, !.end_date = e, !.status = st])

\* The transaction of client c commits.
TxCommit(c) ==
  /\ tx[c].phase = "written"
  /\ committed' = IF tx[c].event = "UPDATE"
                    THEN (committed \ {tx[c].old}) \cup {tx[c].new}
                    ELSE committed \cup {tx[c].new}
  /\ tx' = [tx EXCEPT ![c] = TxIdle]
  /\ UNCHANGED notConc

\* DELETE FROM flights WHERE id = old.id, in a transaction of its own.
TxDelete(c, old) ==
  /\ tx[c].phase = "idle"
  /\ old \in committed
  /\ old.id \notin PendingIds(c)
  /\ committed' = committed \ {old}
  /\ UNCHANGED tx
  /\ UNCHANGED notConc

ConcNext ==
  \/ \E c \in Clients, t \in Tails, s \in Times, e \in Times, st \in {"active", "cancelled"} :
       TxInsert(c, t, s, e, st)
  \/ \E c \in Clients, old \in committed, s \in Times, e \in Times, st \in {"active", "cancelled"} :
       TxUpdate(c, old, s, e, st)
  \/ \E c \in Clients : TxCommit(c)
  \/ \E c \in Clients, old \in committed : TxDelete(c, old)

(***************************************************************************)
(* FlightModal (components/FlightModal.tsx, and its db.* variant): the     *)
(* form's onSubmit and handleCancel, the proxied write they invoke and the *)
(* flights and audit_logs tables behind them.                              *)
(***************************************************************************)
FormTails == {"N100"}

\* The ids of the flights behind the form: two rows are what an overlap,
\* an update of every row and a stale form need.
FormFlightIds == {1, 2}

\* What react-hook-form hands to onSubmit.
\* The periods entered: two that overlap a third, two back to back, and one
\* that ends before it starts.
FormPeriods == {<<0, 2>>, <<0, 1>>, <<1, 2>>, <<2, 0>>}

FormData ==
  {[tail_number |-> t, start_date |-> p[1], end_date |-> p[2],
    start_airport |-> "KJFK", end_airport |-> a] :
     t \in FormTails, p \in FormPeriods, a \in {"KJFK", "KLAX"}}

\* flight = null / undefined: the modal adds a flight.
NoFlight ==
  [id |-> 0, tail_number |-> "", start_date |-> 0, end_date |-> 0,
   start_airport |-> "", end_airport |-> "", status |-> ""]

\* UPDATE ... SET the columns of d.
Patch(row, d) == [f \in DOMAIN row |-> IF f \in DOMAIN d THEN d[f] ELSE row[f]]

\* RAISE EXCEPTION of validate_flight_dates, a violated CHECK constraint,
\* fetch failing, and an API that refuses an UPDATE without a filter.
OverlapError ==
  Err("PostgrestError", <<"Flight", "dates", "overlap", "with", "existing", "flight">>, "P0001")
ConstraintError(c) ==
  Err("PostgrestError", <<"violates", "check", "constraint", c>>, "23514")
FetchError == Err("TypeError", <<"Failed", "to", "fetch">>, NoCode)
NoFilterError ==
  Err("PostgrestError", <<"UPDATE", "requires", "a", "WHERE", "clause">>, "21000")

BackendError(out) == IF out = "overlap" THEN OverlapError ELSE ConstraintError(out)

\* The orders in which a statement can visit the rows with ids in S.
Orders(S) ==
  {o \in [1..Cardinality(S) -> S] : \A i, j \in 1..Cardinality(S) : o[i] = o[j] => i = j}

\* UPDATE flights SET d with no WHERE clause: every row is written, in the
\* order ord, each BEFORE trigger seeing the rows already written; one row
\* that raises undoes the statement.
RECURSIVE UpdateRows(_, _, _, _)
UpdateRows(rows, ord, k, d) ==
  IF k > Len(ord) THEN [out |-> "ok", rows |-> rows]
  ELSE LET old == CHOOSE f \in rows : f.id = ord[k]
           new == Patch(old, d)
           out == WriteOutcome("UPDATE", new, rows)
       IN IF out # "ok" THEN [out |-> out, rows |-> rows]
          ELSE UpdateRows((rows \ {old}) \cup {new}, ord, k + 1, d)

NoReq ==
  [state |-> "none", kind |-> "none", data |-> NoFlight, attempt |-> 0,
   outcome |-> NoOutcome, facade |-> NoFacade, report |-> "none"]

\* The executions of the backend operation the request has made.
Executions(r) == IF r.state = "done" THEN r.attempt + 1 ELSE r.attempt

\* The request changed the table.
Wrote(r) == r.state = "done" /\ r.outcome.error = NoError

FormClosed == [pc |-> "closed", flight |-> NoFlight, report |-> "none"]

FormInit ==
  /\ fRows = {}
  /\ fAudit = <<>>
  /\ form = FormClosed
  /\ req = NoReq

\* The modal is opened on a flight of the list (Edit) or on none (Add).
OpenForm(f) ==
  /\ form.pc = "closed"
  /\ f \in fRows \cup {NoFlight}
  /\ form' = [pc |-> "open", flight |-> f, report |-> "none"]
  /\ UNCHANGED <<fRows, fAudit, req>>
  /\ UNCHANGED notForm

\* onClose.
CloseForm ==
  /\ form.pc = "open"
  /\ req.report # "awaiting"
  /\ form' = FormClosed
  /\ UNCHANGED <<fRows, fAudit, req>>
  /\ UNCHANGED notForm

\* The audit row onSubmit writes after a flight write that did not fail.
AuditRow(r, created) ==
  IF r.kind = "update"
    THEN [flight_id |-> form.flight.id, action |-> "update",
          previous |-> form.flight, new |-> r.data]
    ELSE [flight_id |-> created.id, action |-> "create",
          previous |-> NoFlight, new |-> created]

\* A db.flights operation (or the same chain written in the component) is
\* evaluated: its first method is invoked on the proxy, which starts the
\* request, and the rest of the chain is evaluated on what that returned.
\* A chain that throws lands in the handler's catch, which alerts.
StartWrite(o, d) ==
  /\ req' = [NoReq EXCEPT !.state = "pending", !.kind = Chains[o][1],
                          !.data = d,
                          !.facade = IF ChainThrows(Chains[o])
                                       THEN FacadeRejected ELSE FacadePending,
                          !.report = IF ChainThrows(Chains[o])
                                       THEN "alert" ELSE "awaiting"]
  /\ form' = [form EXCEPT !.report = IF ChainThrows(Chains[o]) THEN "alert" ELSE "none"]

\* Without the date validation: every submission goes to the backend.
DatesInvalidNever(data) == FALSE

\* if (endDate < startDate) of onSubmit.
DatesInvalid(data) == data.end_date < data.start_date

\* onSubmit(data), with or without a signed-in user.
OnSubmit(data, user) ==
  /\ form.pc = "open"
  /\ req.state # "pending"
  /\ IF DatesInvalid(data)
       THEN /\ form' = [form EXCEPT !.report = "invalid"]
            /\ UNCHANGED req
     ELSE IF ~user
       THEN UNCHANGED <<form, req>>
     ELSE LET status == IF form.flight = NoFlight \/ form.flight.status = ""
                          THEN "active" ELSE form.flight.status
              flightData == [tail_number |-> data.tail_number,
                             start_date |-> data.start_date,
                             end_date |-> data.end_date,
                             start_airport |-> data.start_airport,
                             end_airport |-> data.end_airport,
                             status |-> status]
          IN IF form.flight # NoFlight
               THEN StartWrite("flights_update", flightData)
               ELSE /\ \E i \in FormFlightIds : \A f \in fRows : f.id # i
                    /\ StartWrite("flights_create", flightData)
  /\ UNCHANGED <<fRows, fAudit>>
  /\ UNCHANGED notForm

\* handleCancel, confirmed: update({status: 'cancelled'}).
HandleCancel ==
  /\ form.pc = "open"
  /\ form.flight # NoFlight
  /\ req.state # "pending"
  /\ StartWrite("flights_update", [status |-> "cancelled"])
  /\ UNCHANGED <<fRows, fAudit>>
  /\ UNCHANGED notForm

\* What one execution of the request does at the backend.  The request is
\* the first method of the chain alone: an insert of the row, or an update
\* with no filter, which the API refuses (guarded) or applies to every row.
Execution(r, rows, reaches, guarded, ord) ==
  IF ~reaches THEN [error |-> FetchError, rows |-> rows, created |-> NoFlight]
  ELSE IF r.kind = "insert"
    THEN LET i == CHOOSE j \in FormFlightIds : \A f \in rows : f.id # j
             new == [id |-> i] @@ r.data
             out == WriteOutcome("INSERT", new, rows)
         IN IF out = "ok"
              THEN [error |-> NoError, rows |-> rows \cup {new}, created |-> new]
              ELSE [error |-> BackendError(out), rows |-> rows, created |-> NoFlight]
  ELSE IF guarded THEN [error |-> NoFilterError, rows |-> rows, created |-> NoFlight]
  ELSE LET u == UpdateRows(rows, ord, 1, r.data)
       IN IF u.out = "ok"
            THEN [error |-> NoError, rows |-> u.rows, created |-> NoFlight]
            ELSE [error |-> BackendError(u.out), rows |-> rows, created |-> NoFlight]

\* One pass of the retry loop for the request in flight (types.ts 148-203):
\* the query is executed and its result classified with navigator.onLine as
\* it then is; the request is retried, or the invocation returns and the
\* handler that awaits it, if any, continues.
ExecuteRequest(onLine, reaches, guarded, ord) ==
  /\ req.state = "pending"
  /\ (req.kind = "insert") => \E i \in FormFlightIds : \A f \in fRows : f.id # i
  /\ LET x == Execution(req, fRows, reaches, guarded, ord)
     IN /\ fRows' = x.rows
        /\ IF x.error = NoError
             THEN LET out == Returned([data |-> "rows", error |-> NoError])
                      awaited == req.facade.state = "pending"
                  IN /\ req' = [req EXCEPT !.state = "done", !.outcome = out,
                                          !.facade = IF awaited THEN dbQuery(out)
                                                     ELSE req.facade,
                                          !.report = IF awaited THEN "success"
                                                     ELSE req.report]
                     /\ fAudit' = IF awaited /\ req.data # [status |-> "cancelled"]
                                    THEN Append(fAudit, AuditRow(req, x.created))
                                    ELSE fAudit
                     /\ form' = IF awaited THEN FormClosed ELSE form
           ELSE IF ShouldRetry(req.attempt, x.error, onLine)
             THEN /\ req' = [req EXCEPT !.attempt = NextAttempt(req.attempt)]
                  /\ UNCHANGED <<fAudit, form>>
           ELSE LET out == IF reaches /\ ~isRetryableError(x.error, onLine)
                             THEN Returned([data |-> Null, error |-> x.error])
                             ELSE Failure(x.error)
                    awaited == req.facade.state = "pending"
                IN /\ req' = [req EXCEPT !.state = "done", !.outcome = out,
                                        !.facade = IF awaited THEN dbQuery(out)
                                                   ELSE req.facade,
                                        !.report = IF awaited THEN "alert"
                                                   ELSE req.report]
                   /\ form' = IF awaited THEN [form EXCEPT !.report = "alert"] ELSE form
                   /\ UNCHANGED fAudit
  /\ UNCHANGED notForm

\* Another user's write, one statement: an insert, a change of status, a
\* delete (audit_logs rows of the flight go with it).
\* The rows another user inserts: valid ones, and one that breaks each
\* CHECK constraint.
OtherInputs ==
  { <<<<0, 2>>, <<"KJFK", "KLAX">>, "active">>,
    <<<<1, 2>>, <<"KJFK", "KLAX">>, "active">>,
    <<<<0, 1>>, <<"KJFK", "KLAX">>, "cancelled">>,
    <<<<2, 0>>, <<"KJFK", "KLAX">>, "active">>,
    <<<<0, 2>>, <<"KJFK", "KJFK">>, "active">>,
    <<<<0, 2>>, <<"KJFK", "KLAX">>, "pending">> }

OtherInsert(p, ap, st) ==
  /\ \E i \in FormFlightIds : \A f \in fRows : f.id # i
  /\ LET i == CHOOSE j \in FormFlightIds : \A f \in fRows : f.id # j
         new == [id |-> i, tail_number |-> "N100", start_date |-> p[1],
                 end_date |-> p[2], start_airport |-> ap[1], end_airport |-> ap[2],
                 status |-> st]
     IN fRows' = IF WriteOutcome("INSERT", new, fRows) = "ok"
                   THEN fRows \cup {new} ELSE fRows
  /\ UNCHANGED <<fAudit, form, req>>
  /\ UNCHANGED notForm

OtherUpdate(old, st) ==
  /\ old \in fRows
  /\ LET new == [old EXCEPT !.status = st]
     IN fRows' = IF WriteOutcome("UPDATE", new, fRows) = "ok"
                   THEN (fRows \ {old}) \cup {new} ELSE fRows
  /\ UNCHANGED <<fAudit, form, req>>
  /\ UNCHANGED notForm

OtherDelete(old) ==
  /\ old \in fRows
  /\ fRows' = fRows \ {old}
  /\ fAudit' = LET keep(a) == a.flight_id # old.id IN SelectSeq(fAudit, keep)
  /\ UNCHANGED <<form, req>>
  /\ UNCHANGED notForm

FormNext ==
  \/ \E f \in fRows \cup {NoFlight} : OpenForm(f)
  \/ CloseForm
  \/ \E data \in FormData, user \in BOOLEAN : OnSubmit(data, user)
  \/ HandleCancel
  \/ \E onLine \in BOOLEAN, reaches \in BOOLEAN :
       \E guarded \in (IF reaches /\ req.kind = "update" THEN BOOLEAN ELSE {FALSE}) :
         \E ord \in (IF reaches /\ req.kind = "update" /\ ~guarded
                        THEN Orders({f.id : f \in fRows}) ELSE {<<>>}) :
           ExecuteRequest(onLine, reaches, guarded, ord)
  \/ \E x \in OtherInputs : OtherInsert(x[1], x[2], x[3])
  \/ \E old \in fRows, st \in StatusInputs : OtherUpdate(old, st)
  \/ \E old \in fRows : OtherDelete(old)

(***************************************************************************)
(* The foreign keys of the schema the migrations leave behind, and the     *)
(* statements that insert and delete the rows they tie together.           *)
(***************************************************************************)
\* The statements that define a foreign key, in the order the migrations
\* apply: the first table definitions, the companies tables, flight_tasks,
\* the audit_logs fix, flight_locks, then navy_bonus and dusty_shrine.
ForeignKeyStatements ==
  << [table |-> "audit_logs", stmt |-> "create", onDelete |-> "no action"],
     [table |-> "company_tails", stmt |-> "create", onDelete |-> "no action"],
     [table |-> "flight_tasks", stmt |-> "create", onDelete |-> "cascade"],
     [table |-> "audit_logs", stmt |-> "alter", onDelete |-> "cascade"],
     [table |-> "flight_locks", stmt |-> "create", onDelete |-> "cascade"],
     [table |-> "audit_logs", stmt |-> "create if not exists", onDelete |-> "cascade"],
     [table |-> "company_tails", stmt |-> "create if not exists", onDelete |-> "cascade"],
     [table |-> "flight_tasks", stmt |-> "create if not exists", onDelete |-> "cascade"],
     [table |-> "flight_locks", stmt |-> "create if not exists", onDelete |-> "cascade"],
     [table |-> "flight_tasks", stmt |-> "alter", onDelete |-> "cascade"],
     [table |-> "audit_logs", stmt |-> "alter", onDelete |-> "cascade"] >>

\* The ON DELETE action of the table's foreign key after the first k
\* statements: CREATE TABLE IF NOT EXISTS leaves an existing table alone.
RECURSIVE OnDeleteAfter(_, _)
OnDeleteAfter(table, k) ==
  IF k = 0 THEN "absent"
  ELSE LET prev == OnDeleteAfter(table, k - 1)
           st == ForeignKeyStatements[k]
       IN IF st.table # table THEN prev
          ELSE IF st.stmt = "create if not exists" /\ prev # "absent" THEN prev
          ELSE st.onDelete

\* A schema none of whose foreign keys cascades.
OnDeleteNoAction(table) == "no action"

OnDelete(table) == OnDeleteAfter(table, Len(ForeignKeyStatements))

\* The roles a statement runs as, and whether row level security lets the
\* role delete rows of the table: flights has a DELETE policy for
\* authenticated users, companies has none; service_role bypasses policies.
Roles == {"authenticated", "service_role"}

\* Policies that let every role delete from every table.
CanDeleteAny(table, role) == TRUE

CanDelete(table, role) ==
  \/ role = "service_role"
  \/ table \in {"flights", "flight_tasks", "company_tails"}

\* The same for UPDATE: audit_logs and flight_locks have no policy that
\* lets an authenticated user update a row of another's.
CanUpdate(table, role) ==
  \/ role = "service_role"
  \/ table \in {"flights", "companies", "flight_tasks", "company_tails"}

Users == {"u1", "u2"}
SchemaFlightIds == {1, 2}
ChildIds == {1, 2}
CompanyIds == {1, 2}

SchemaInit ==
  /\ flightIds = {}
  /\ flight_tasks = {}
  /\ audit_logs = {}
  /\ flight_locks = {}
  /\ companies = {}
  /\ company_tails = {}
  /\ lastStmt = [op |-> "none", id |-> 0, outcome |-> "none", cascaded |-> 0]

Stmt(op, id, out) == [op |-> op, id |-> id, outcome |-> out, cascaded |-> 0]

\* INSERT INTO flights.
InsertFlightRow ==
  /\ \E i \in SchemaFlightIds : i \notin flightIds
  /\ LET i == CHOOSE j \in SchemaFlightIds : j \notin flightIds
     IN /\ flightIds' = flightIds \cup {i}
        /\ lastStmt' = Stmt("insert_flight", i, "ok")
  /\ UNCHANGED <<flight_tasks, audit_logs, flight_locks, companies, company_tails>>
  /\ UNCHANGED notSchema

\* INSERT INTO flight_tasks (db.tasks.create), with the flight id the form
\* was opened on: the foreign key refuses an id that is not in flights.
InsertTask(fid) ==
  /\ \E i \in ChildIds : \A r \in flight_tasks : r.id # i
  /\ LET i == CHOOSE j \in ChildIds : \A r \in flight_tasks : r.id # j
     IN IF fid \in flightIds
          THEN /\ flight_tasks' = flight_tasks \cup {[id |-> i, flight_id |-> fid]}
               /\ lastStmt' = Stmt("insert_task", fid, "ok")
          ELSE /\ UNCHANGED flight_tasks
               /\ lastStmt' = Stmt("insert_task", fid, "foreign_key_violation")
  /\ UNCHANGED <<flightIds, audit_logs, flight_locks, companies, company_tails>>
  /\ UNCHANGED notSchema

\* INSERT INTO audit_logs (db.auditLogs.create).
InsertAudit(fid) ==
  /\ \E i \in ChildIds : \A r \in audit_logs : r.id # i
  /\ LET i == CHOOSE j \in ChildIds : \A r \in audit_logs : r.id # j
     IN IF fid \in flightIds
          THEN /\ audit_logs' = audit_logs \cup {[id |-> i, flight_id |-> fid]}
               /\ lastStmt' = Stmt("insert_audit", fid, "ok")
          ELSE /\ UNCHANGED audit_logs
               /\ lastStmt' = Stmt("insert_audit", fid, "foreign_key_violation")
  /\ UNCHANGED <<flightIds, flight_tasks, flight_locks, companies, company_tails>>
  /\ UNCHANGED notSchema

\* INSERT INTO flight_locks: PRIMARY KEY (flight_id) and the foreign key.
InsertLock(fid, u) ==
  /\ IF fid \notin flightIds
       THEN /\ UNCHANGED flight_locks
            /\ lastStmt' = Stmt("insert_lock", fid, "foreign_key_violation")
     ELSE IF \E r \in flight_locks : r.flight_id = fid
       THEN /\ UNCHANGED flight_locks
            /\ lastStmt' = Stmt("insert_lock", fid, "unique_violation")
     ELSE /\ flight_locks' = flight_locks \cup {[flight_id |-> fid, user_id |-> u]}
          /\ lastStmt' = Stmt("insert_lock", fid, "ok")
  /\ UNCHANGED <<flightIds, flight_tasks, audit_logs, companies, company_tails>>
  /\ UNCHANGED notSchema

\* The rows of a child table a DELETE of parent row id leaves, and whether
\* the foreign key lets the DELETE go through.
Referencing(rows, id) == {r \in rows : r.flight_id = id}

Blocks(table, rows, id) ==
  OnDelete(table) # "cascade" /\ Referencing(rows, id) # {}

\* DELETE FROM flights WHERE id = i (db.flights.delete).
DeleteFlightRow(i, role) ==
  /\ i \in flightIds
  /\ IF ~CanDelete("flights", role)
       THEN /\ lastStmt' = Stmt("delete_flight", i, "no_rows")
            /\ UNCHANGED <<flightIds, flight_tasks, audit_logs, flight_locks>>
     ELSE IF \/ Blocks("flight_tasks", flight_tasks, i)
             \/ Blocks("audit_logs", audit_logs, i)
             \/ Blocks("flight_locks", flight_locks, i)
       THEN /\ lastStmt' = Stmt("delete_flight", i, "foreign_key_violation")
            /\ UNCHANGED <<flightIds, flight_tasks, audit_logs, flight_locks>>
     ELSE /\ flightIds' = flightIds \ {i}
          /\ flight_tasks' = flight_tasks \ Referencing(flight_tasks, i)
          /\ audit_logs' = audit_logs \ Referencing(audit_logs, i)
          /\ flight_locks' = flight_locks \ Referencing(flight_locks, i)
          /\ lastStmt' = [op |-> "delete_flight", id |-> i, outcome |-> "ok",
                          cascaded |-> Cardinality(Referencing(flight_tasks, i))
                                       + Cardinality(Referencing(audit_logs, i))
                                       + Cardinality(Referencing(flight_locks, i))]
  /\ UNCHANGED <<companies, company_tails>>
  /\ UNCHANGED notSchema

\* INSERT INTO companies (db.companies.create).
InsertCompany ==
  /\ \E c \in CompanyIds : c \notin companies
  /\ LET c == CHOOSE d \in CompanyIds : d \notin companies
     IN /\ companies' = companies \cup {c}
        /\ lastStmt' = Stmt("insert_company", c, "ok")
  /\ UNCHANGED <<flightIds, flight_tasks, audit_logs, flight_locks, company_tails>>
  /\ UNCHANGED notSchema

\* INSERT INTO company_tails (db.companyTails.create): the foreign key and
\* UNIQUE (company_id, tail_number).
InsertTail(c, t) ==
  /\ IF c \notin companies
       THEN /\ UNCHANGED company_tails
            /\ lastStmt' = Stmt("insert_tail", c, "foreign_key_violation")
     ELSE IF [company_id |-> c, tail_number |-> t] \in company_tails
       THEN /\ UNCHANGED company_tails
            /\ lastStmt' = Stmt("insert_tail", c, "unique_violation")
     ELSE /\ company_tails' = company_tails \cup {[company_id |-> c, tail_number |-> t]}
          /\ lastStmt' = Stmt("insert_tail", c, "ok")
  /\ UNCHANGED <<flightIds, flight_tasks, audit_logs, flight_locks, companies>>
  /\ UNCHANGED notSchema

\* DELETE FROM company_tails WHERE company_id = c AND tail_number = t
\* (db.companyTails.delete).
DeleteTail(c, t) ==
  /\ [company_id |-> c, tail_number |-> t] \in company_tails
  /\ company_tails' = company_tails \ {[company_id |-> c, tail_number |-> t]}
  /\ lastStmt' = Stmt("delete_tail", c, "ok")
  /\ UNCHANGED <<flightIds, flight_tasks, audit_logs, flight_locks, companies>>
  /\ UNCHANGED notSchema

\* DELETE FROM companies WHERE id = c.
DeleteCompany(c, role) ==
  /\ c \in companies
  /\ LET owned == {r \in company_tails : r.company_id = c}
     IN IF ~CanDelete("companies", role)
          THEN /\ lastStmt' = Stmt("delete_company", c, "no_rows")
               /\ UNCHANGED <<companies, company_tails>>
        ELSE IF OnDelete("company_tails") # "cascade" /\ owned # {}
          THEN /\ lastStmt' = Stmt("delete_company", c, "foreign_key_violation")
               /\ UNCHANGED <<companies, company_tails>>
        ELSE /\ companies' = companies \ {c}
             /\ company_tails' = company_tails \ owned
             /\ lastStmt' = [op |-> "delete_company", id |-> c, outcome |-> "ok",
                             cascaded |-> Cardinality(owned)]
  /\ UNCHANGED <<flightIds, flight_tasks, audit_logs, flight_locks>>
  /\ UNCHANGED notSchema

\* UPDATE audit_logs SET flight_id = fid WHERE id = i, by a client.
ClientUpdateAudit(i, fid) ==
  /\ \E r \in audit_logs : r.id = i
  /\ IF ~CanUpdate("audit_logs", "authenticated")
       THEN /\ UNCHANGED audit_logs
            /\ lastStmt' = Stmt("update_audit", i, "no_rows")
     ELSE IF fid \notin flightIds
       THEN /\ UNCHANGED audit_logs
            /\ lastStmt' = Stmt("update_audit", i, "foreign_key_violation")
     ELSE /\ audit_logs' = {IF r.id = i THEN [r EXCEPT !.flight_id = fid] ELSE r :
                              r \in audit_logs}
          /\ lastStmt' = Stmt("update_audit", i, "ok")
  /\ UNCHANGED <<flightIds, flight_tasks, flight_locks, companies, company_tails>>
  /\ UNCHANGED notSchema

\* DELETE FROM audit_logs WHERE id = i, by a client.
ClientDeleteAudit(i) ==
  /\ \E r \in audit_logs : r.id = i
  /\ IF ~CanDelete("audit_logs", "authenticated")
       THEN /\ UNCHANGED audit_logs
            /\ lastStmt' = Stmt("delete_audit", i, "no_rows")
       ELSE /\ audit_logs' = {r \in audit_logs : r.id # i}
            /\ lastStmt' = Stmt("delete_audit", i, "ok")
  /\ UNCHANGED <<flightIds, flight_tasks, flight_locks, companies, company_tails>>
  /\ UNCHANGED notSchema

SchemaNext ==
  \/ \E i \in ChildIds, fid \in SchemaFlightIds : ClientUpdateAudit(i, fid)
  \/ \E i \in ChildIds : ClientDeleteAudit(i)
  \/ InsertFlightRow
  \/ \E fid \in SchemaFlightIds : InsertTask(fid)
  \/ \E fid \in SchemaFlightIds : InsertAudit(fid)
  \/ \E fid \in SchemaFlightIds, u \in Users : InsertLock(fid, u)
  \/ \E i \in SchemaFlightIds, role \in Roles : DeleteFlightRow(i, role)
  \/ InsertCompany
  \/ \E c \in CompanyIds, t \in Tails : InsertTail(c, t)
  \/ \E c \in CompanyIds, t \in Tails : DeleteTail(c, t)
  \/ \E c \in CompanyIds, role \in Roles : DeleteCompany(c, role)

(***************************************************************************)
(* flight_locks: its primary key under concurrent transactions, its row    *)
(* level security policies and the cleanup its trigger runs.               *)
(***************************************************************************)
LOCK_MAX_AGE == 15
Minutes == {0, 10, 20, 30}
LockFlightIds == {1, 2}

NoLockRow == [flight_id |-> 0, user_id |-> "none", locked_at |-> 0]
NoLockTx == [phase |-> "idle", row |-> NoLockRow]

LockInit ==
  /\ lockRows = {}
  /\ lockTx = [u \in Users |-> NoLockTx]
  /\ now = 0
  /\ lastLock = [op |-> "none", by |-> "none", outcome |-> "none", waited |-> FALSE]

LockStmt(op, u, out, waited) ==
  [op |-> op, by |-> u, outcome |-> out, waited |-> waited]

\* A primary key that refuses nothing.
PrimaryKeyConflictNone(f, rows) == FALSE

\* PRIMARY KEY (flight_id): a row with this key is among rows.
PrimaryKeyConflict(f, rows) == \E r \in rows : r.flight_id = f

\* The rows other users' open transactions have written.
WrittenByOthers(u) ==
  {lockTx[v].row : v \in {w \in Users : w # u /\ lockTx[w].phase = "written"}}

\* Policies under which every user manages every lock.
ManagesAnyLock(r, uid) == TRUE

\* "Users can manage their own locks": USING (auth.uid() = user_id)
\* WITH CHECK (auth.uid() = user_id).
ManagesOwnLock(r, uid) == r.user_id = uid

\* locked_at < now() - interval '15 minutes'
LockIsOld(r, t) == r.locked_at < t - LOCK_MAX_AGE

\* cleanup_old_locks() run at time t on behalf of user uid: the function is
\* not SECURITY DEFINER, so its DELETE sees the rows the caller's policy
\* lets the caller delete.
cleanup_old_locks(rows, t, uid) ==
  {r \in rows : ~(LockIsOld(r, t) /\ ManagesOwnLock(r, uid))}

\* INSERT INTO flight_locks by user u for flight f with user_id owner,
\* locked_at DEFAULT now(): refused when the policy's WITH CHECK fails or a
\* committed row has the key, made to wait while another transaction's
\* uncommitted row has it.
LockInsert(u, f, owner) ==
  /\ lockTx[u].phase = "idle"
  /\ LET row == [flight_id |-> f, user_id |-> owner, locked_at |-> now]
     IN IF ~ManagesOwnLock(row, u)
          THEN /\ UNCHANGED lockTx
               /\ lastLock' = LockStmt("insert", u, "policy_violation", FALSE)
        ELSE IF PrimaryKeyConflict(f, lockRows)
          THEN /\ UNCHANGED lockTx
               /\ lastLock' = LockStmt("insert", u, "unique_violation", FALSE)
        ELSE IF PrimaryKeyConflict(f, WrittenByOthers(u))
          THEN /\ lockTx' = [lockTx EXCEPT ![u] = [phase |-> "waiting", row |-> row]]
               /\ lastLock' = LockStmt("insert", u, "waiting", TRUE)
        ELSE /\ lockTx' = [lockTx EXCEPT ![u] = [phase |-> "written", row |-> row]]
             /\ lastLock' = LockStmt("insert", u, "written", FALSE)
  /\ UNCHANGED <<lockRows, now>>
  /\ UNCHANGED notLock

\* The waiting INSERT goes on once the other transaction has ended: refused
\* if that one committed, written if it rolled back.
LockResume(u) ==
  /\ lockTx[u].phase = "waiting"
  /\ ~PrimaryKeyConflict(lockTx[u].row.flight_id, WrittenByOthers(u))
  /\ IF PrimaryKeyConflict(lockTx[u].row.flight_id, lockRows)
       THEN /\ lockTx' = [lockTx EXCEPT ![u] = NoLockTx]
            /\ lastLock' = LockStmt("insert", u, "unique_violation", TRUE)
       ELSE /\ lockTx' = [lockTx EXCEPT ![u].phase = "written"]
            /\ lastLock' = LockStmt("insert", u, "written", TRUE)
  /\ UNCHANGED <<lockRows, now>>
  /\ UNCHANGED notLock

\* The INSERT's transaction commits: cleanup_locks_trigger has run
\* cleanup_old_locks for the inserting user after the statement.
LockCommit(u) ==
  /\ lockTx[u].phase = "written"
  /\ lockRows' = cleanup_old_locks(lockRows, now, u) \cup {lockTx[u].row}
  /\ lockTx' = [lockTx EXCEPT ![u] = NoLockTx]
  /\ lastLock' = LockStmt("insert", u, "ok", lastLock.waited /\ lastLock.by = u)
  /\ UNCHANGED now
  /\ UNCHANGED notLock

\* The INSERT's transaction is rolled back.
LockRollback(u) ==
  /\ lockTx[u].phase = "written"
  /\ lockTx' = [lockTx EXCEPT ![u] = NoLockTx]
  /\ lastLock' = LockStmt("insert", u, "rolled_back", FALSE)
  /\ UNCHANGED <<lockRows, now>>
  /\ UNCHANGED notLock

\* UPDATE flight_locks SET locked_at = now() WHERE flight_id = f by user u:
\* the policy limits it to u's own row; the statement trigger runs the
\* cleanup whether or not a row was updated.
LockUpdate(u, f) ==
  /\ lockTx[u].phase = "idle"
  /\ LET mine == {r \in lockRows : r.flight_id = f /\ ManagesOwnLock(r, u)}
         fresh == {[r EXCEPT !.locked_at = now] : r \in mine}
     IN lockRows' = cleanup_old_locks((lockRows \ mine) \cup fresh, now, u)
  /\ lastLock' = LockStmt("update", u, "ok", FALSE)
  /\ UNCHANGED <<lockTx, now>>
  /\ UNCHANGED notLock

\* DELETE FROM flight_locks WHERE flight_id = f by user u: own rows only, and
\* no trigger.
LockRelease(u, f) ==
  /\ lockTx[u].phase = "idle"
  /\ \E r \in lockRows : r.flight_id = f
  /\ lockRows' = {r \in lockRows : ~(r.flight_id = f /\ ManagesOwnLock(r, u))}
  /\ lastLock' = LockStmt("delete", u, "ok", FALSE)
  /\ UNCHANGED <<lockTx, now>>
  /\ UNCHANGED notLock

\* Ten minutes pass, with no transaction open.
LockTick ==
  /\ \A u \in Users : lockTx[u].phase = "idle"
  /\ now + 10 \in Minutes
  /\ now' = now + 10
  /\ lastLock' = LockStmt("tick", "none", "none", FALSE)
  /\ UNCHANGED <<lockRows, lockTx>>
  /\ UNCHANGED notLock

LockNext ==
  \/ \E u \in Users, f \in LockFlightIds, owner \in Users : LockInsert(u, f, owner)
  \/ \E u \in Users : LockResume(u)
  \/ \E u \in Users : LockCommit(u)
  \/ \E u \in Users : LockRollback(u)
  \/ \E u \in Users, f \in LockFlightIds : LockUpdate(u, f)
  \/ \E u \in Users, f \in LockFlightIds : LockRelease(u, f)
  \/ LockTick

(***************************************************************************)
(* One row write against a table it finds: the BEFORE trigger and the      *)
(* CHECK constraints applied to a statement and a table chosen freely.     *)
(***************************************************************************)
TrigPeriods == Times \X Times

TrigRow(i, t, p, st) ==
  [id |-> i, tail_number |-> t, start_date |-> p[1], end_date |-> p[2],
   start_airport |-> "KJFK", end_airport |-> "KLAX", status |-> st]

\* The rows a table can hold: they meet the CHECK constraints.
StoredRows ==
  {TrigRow(1, t, p, st) : t \in Tails, p \in {q \in TrigPeriods : q[1] <= q[2]},
                          st \in {"active", "cancelled"}}

TrigTables == {{}} \cup {{r} : r \in StoredRows}

\* An INSERT of a new row, or an UPDATE of the stored row to new values.
TrigWrites(rows) ==
  {[event |-> "INSERT", new |-> TrigRow(2, t, p, st)] :
     t \in Tails, p \in TrigPeriods, st \in {"active", "cancelled"}}
  \cup
  {[event |-> "UPDATE", new |-> TrigRow(r.id, t, p, st)] :
     r \in rows, t \in Tails, p \in TrigPeriods, st \in {"active", "cancelled"}}

TrigIdle ==
  /\ tRows = {}
  /\ tWrite = [event |-> "INSERT", new |-> TrigRow(2, "N100", <<0, 1>>, "active")]
  /\ tVerdict = "none"

TrigInit ==
  /\ tRows \in TrigTables
  /\ tWrite \in TrigWrites(tRows)
  /\ tVerdict = "none"

\* The statement runs.
ValidateWrite ==
  /\ tVerdict = "none"
  /\ tVerdict' = WriteOutcome(tWrite.event, tWrite.new, tRows)
  /\ UNCHANGED <<tRows, tWrite>>
  /\ UNCHANGED notTrig

\* Another statement, against another table.
NextWrite ==
  /\ tVerdict # "none"
  /\ tRows' \in TrigTables
  /\ tWrite' \in TrigWrites(tRows')
  /\ tVerdict' = "none"
  /\ UNCHANGED notTrig

TrigNext == ValidateWrite \/ NextWrite

(***************************************************************************)
(* Flight and task operations beside flight_locks: every operation is      *)
(* applied to the tables as they are and to the same tables with           *)
(* flight_locks empty.                                                     *)
(***************************************************************************)
AdvFlightIds == {1, 2}
AdvTaskIds == {1}

AbsentFlight == [status |-> "absent", notes |-> 0]

\* Policies that keep a user from a flight another user holds a lock on.
WritePermittedUnlessLocked(uid, fid, locks) ==
  \A l \in locks : l.flight_id = fid => l.user_id = uid

\* The policies of flights and flight_tasks for INSERT, UPDATE and DELETE:
\* USING (true) / WITH CHECK (true) for every authenticated user.  Neither
\* they, nor the trigger, nor the handlers of FlightModal read flight_locks.
WritePermitted(uid, fid, locks) == TRUE

AdvOps ==
  [kind : {"create_flight", "update_flight", "cancel_flight", "delete_flight"},
   by : Users, id : AdvFlightIds, task : {0}]
  \cup
  [kind : {"add_task", "update_task", "delete_task"},
   by : Users, id : AdvFlightIds, task : AdvTaskIds]

AdvResult(db, out) == [db |-> db, out |-> out]

\* The tables after the operation and how it ended, given the lock rows.
ApplyOp(op, db, locks) ==
  LET present == db.flights[op.id] # AbsentFlight
      task == {t \in db.tasks : t.id = op.task}
  IN CASE op.kind = "create_flight" ->
            IF present THEN AdvResult(db, "unique_violation")
            ELSE AdvResult([db EXCEPT !.flights[op.id] =
                              [status |-> "active", notes |-> 0]], "ok")
       [] op.kind = "update_flight" ->
            IF ~present \/ ~WritePermitted(op.by, op.id, locks)
              THEN AdvResult(db, "no_rows")
              ELSE AdvResult([db EXCEPT !.flights[op.id].notes = 1 - @], "ok")
       [] op.kind = "cancel_flight" ->
            IF ~present \/ ~WritePermitted(op.by, op.id, locks)
              THEN AdvResult(db, "no_rows")
              ELSE AdvResult([db EXCEPT !.flights[op.id].status = "cancelled"], "ok")
       [] op.kind = "delete_flight" ->
            IF ~present \/ ~WritePermitted(op.by, op.id, locks)
              THEN AdvResult(db, "no_rows")
              ELSE AdvResult([flights |-> [db.flights EXCEPT ![op.id] = AbsentFlight],
                              tasks |-> {t \in db.tasks : t.flight_id # op.id}], "ok")
       [] op.kind = "add_task" ->
            IF task # {} THEN AdvResult(db, "unique_violation")
            ELSE IF ~present THEN AdvResult(db, "foreign_key_violation")
            ELSE IF ~WritePermitted(op.by, op.id, locks)
              THEN AdvResult(db, "policy_violation")
            ELSE AdvResult([db EXCEPT !.tasks = @ \cup
                              {[id |-> op.task, flight_id |-> op.id,
                                completed |-> FALSE]}], "ok")
       [] op.kind = "update_task" ->
            IF \E t \in task : t.flight_id = op.id /\ WritePermitted(op.by, op.id, locks)
              THEN AdvResult([db EXCEPT !.tasks =
                                {IF t \in task THEN [t EXCEPT !.completed = ~@] ELSE t :
                                   t \in db.tasks}], "ok")
              ELSE AdvResult(db, "no_rows")
       [] OTHER ->
            IF \E t \in task : t.flight_id = op.id /\ WritePermitted(op.by, op.id, locks)
              THEN AdvResult([db EXCEPT !.tasks = @ \ task], "ok")
              ELSE AdvResult(db, "no_rows")

AdvInit ==
  /\ aDb = [flights |-> [f \in AdvFlightIds |-> AbsentFlight], tasks |-> {}]
  /\ aLocks = {}
  /\ bDb = aDb
  /\ aLast = [op |-> "none", by |-> "none", id |-> 0, out |-> "none"]
  /\ bLast = aLast

AdvIdle == AdvInit

\* A user's operation on a flight or on a task of it.  Deleting the flight
\* takes its lock row along.
Operate(op) ==
  /\ LET a == ApplyOp(op, aDb, aLocks)
         b == ApplyOp(op, bDb, {})
     IN /\ aDb' = a.db
        /\ bDb' = b.db
        /\ aLast' = [op |-> op.kind, by |-> op.by, id |-> op.id, out |-> a.out]
        /\ bLast' = [op |-> op.kind, by |-> op.by, id |-> op.id, out |-> b.out]
        /\ aLocks' = {l \in aLocks : a.db.flights[l.flight_id] # AbsentFlight}
  /\ UNCHANGED notAdv

\* A user inserts a lock row for a flight that has none.
AcquireLock(u, f) ==
  /\ aDb.flights[f] # AbsentFlight
  /\ \A l \in aLocks : l.flight_id # f
  /\ aLocks' = aLocks \cup {[flight_id |-> f, user_id |-> u]}
  /\ UNCHANGED <<aDb, bDb, aLast, bLast>>
  /\ UNCHANGED notAdv

\* A user deletes their lock row.
ReleaseLock(u, f) ==
  /\ [flight_id |-> f, user_id |-> u] \in aLocks
  /\ aLocks' = aLocks \ {[flight_id |-> f, user_id |-> u]}
  /\ UNCHANGED <<aDb, bDb, aLast, bLast>>
  /\ UNCHANGED notAdv

AdvNext ==
  \/ \E op \in AdvOps : Operate(op)
  \/ \E u \in Users, f \in AdvFlightIds : AcquireLock(u, f)
  \/ \E u \in Users, f \in AdvFlightIds : ReleaseLock(u, f)

(***************************************************************************)
(* App.fetchData: two runs, the select request each starts through the     *)
(* proxy, and the lists the App displays.                                  *)
(***************************************************************************)
RunIds == {1, 2}

\* Contents of the flights table, all different from the empty list the App
\* starts with (0).
TableContents == {1, 2, 3}

NoRun == [pc |-> "idle", facade |-> "none"]
NoQuery == [state |-> "none", rows |-> 0]

FetchInit ==
  /\ fRun = [r \in RunIds |-> NoRun]
  /\ fQuery = [r \in RunIds |-> NoQuery]
  /\ fTable = 1
  /\ fShown = [flights |-> 0, error |-> "none", loading |-> FALSE]

FetchIdle == FetchInit

\* fetchData is called (by the session effect or an onSuccess): setError(null),
\* setLoading(true), then db.flights.getAll() is evaluated up to its await.
\* Its first method starts the request; the rest of the chain is evaluated
\* on what that returned.
StartFetch(r) ==
  /\ fRun[r].pc = "idle"
  /\ r = 2 => fRun[1].pc # "idle"
  /\ fRun' = [fRun EXCEPT ![r] =
                [pc |-> "awaiting",
                 facade |-> IF ChainThrows(Chains["flights_getAll"])
                              THEN "rejected" ELSE "pending"]]
  /\ fQuery' = [fQuery EXCEPT ![r] = [state |-> "sent", rows |-> 0]]
  /\ fShown' = [fShown EXCEPT !.error = "none", !.loading = TRUE]
  /\ UNCHANGED fTable
  /\ UNCHANGED notFetch

\* The run resumes with a rejected db.flights.getAll(): catch sets the error,
\* finally clears loading.
FetchFails(r) ==
  /\ fRun[r].pc = "awaiting"
  /\ fRun[r].facade = "rejected"
  /\ fRun' = [fRun EXCEPT ![r].pc = "done"]
  /\ fShown' = [fShown EXCEPT !.error = "TypeError", !.loading = FALSE]
  /\ UNCHANGED <<fQuery, fTable>>
  /\ UNCHANGED notFetch

\* The backend answers the run's select with the rows it has; a run that is
\* awaiting the query goes on with them: setFlights, then (the rest of the
\* run) loading cleared.
QueryAnswered(r) ==
  /\ fQuery[r].state = "sent"
  /\ fQuery' = [fQuery EXCEPT ![r] = [state |-> "answered", rows |-> fTable]]
  /\ IF fRun[r].pc = "awaiting" /\ fRun[r].facade = "pending"
       THEN /\ fRun' = [fRun EXCEPT ![r].pc = "done"]
            /\ fShown' = [fShown EXCEPT !.flights = fTable, !.loading = FALSE]
       ELSE UNCHANGED <<fRun, fShown>>
  /\ UNCHANGED fTable
  /\ UNCHANGED notFetch

\* Some write changes the flights table.
TableChanges ==
  /\ fTable + 1 \in TableContents
  /\ fTable' = fTable + 1
  /\ UNCHANGED <<fRun, fQuery, fShown>>
  /\ UNCHANGED notFetch

\* Both runs over, the App is ready for further fetches.
FetchAgain ==
  /\ \A r \in RunIds : fRun[r].pc = "done" /\ fQuery[r].state = "answered"
  /\ fRun' = [r \in RunIds |-> NoRun]
  /\ fQuery' = [r \in RunIds |-> NoQuery]
  /\ UNCHANGED <<fTable, fShown>>
  /\ UNCHANGED notFetch

FetchNext ==
  \/ \E r \in RunIds : StartFetch(r)
  \/ \E r \in RunIds : FetchFails(r)
  \/ \E r \in RunIds : QueryAnswered(r)
  \/ TableChanges
  \/ FetchAgain

(***************************************************************************)
(* The list queries (db.flights.getAll, db.companies.getAll,               *)
(* db.tasks.getByFlight): the request each sends and the rows, in order,   *)
(* the backend answers with.                                               *)
(***************************************************************************)
ListIds == {1, 2, 3}
SortKeys == {0, 1}
ListOps == {"flights_getAll", "companies_getAll", "tasks_getByFlight"}

\* The request that reaches the backend: the call of the first method on the
\* proxy sends what that method alone has built; a chain that does not throw
\* is sent whole.
SentChain(chain) == IF ChainThrows(chain) THEN SubSeq(chain, 1, 1) ELSE chain

HasOrder(sent) == \E i \in DOMAIN sent : sent[i] = "order"

\* The sequences a SELECT can answer with: the rows once each, by ascending
\* sort key if the request has an order clause; rows with equal keys, and
\* all rows of a request without the clause, come in any order.
Answers(rows, sent) ==
  {o \in [1..Cardinality(rows) -> rows] :
     /\ \A i, j \in 1..Cardinality(rows) : o[i] = o[j] => i = j
     /\ HasOrder(sent) =>
          \A i, j \in 1..Cardinality(rows) : i < j => o[i].key <= o[j].key}

ListInit ==
  /\ lRows = {}
  /\ lAnswers = <<>>

ListIdle == ListInit

\* A row is inserted.
ListInsert(k) ==
  /\ \E i \in ListIds : \A r \in lRows : r.id # i
  /\ lRows' = lRows \cup {[id |-> CHOOSE i \in ListIds : \A r \in lRows : r.id # i,
                           key |-> k]}
  /\ lAnswers' = <<>>
  /\ UNCHANGED notList

\* A row is deleted.
ListDelete(r) ==
  /\ r \in lRows
  /\ lRows' = lRows \ {r}
  /\ lAnswers' = <<>>
  /\ UNCHANGED notList

\* The list query is made and answered.
ListQuery(o, ans) ==
  /\ Len(lAnswers) < 2
  /\ ans \in Answers(lRows, SentChain(Chains[o]))
  /\ lAnswers' = Append(lAnswers, ans)
  /\ UNCHANGED lRows
  /\ UNCHANGED notList

ListNext ==
  \/ \E k \in SortKeys : ListInsert(k)
  \/ \E r \in lRows : ListDelete(r)
  \/ \E o \in ListOps : \E ans \in Answers(lRows, SentChain(Chains[o])) : ListQuery(o, ans)

(***************************************************************************)
(* One create (an insert through the proxy) whose attempts reach the       *)
(* backend or not, and whose responses reach the client or not.            *)
(***************************************************************************)
CreateKinds == {"flight_tasks", "companies", "company_tails", "audit_logs"}

\* No table with a unique constraint on what the client sends.
HasUniqueKeyNone(kind) == FALSE

\* UNIQUE (company_id, tail_number) of company_tails; the other tables have
\* only the primary key id, which the backend generates for each insert.
HasUniqueKey(kind) == kind = "company_tails"

UniqueError ==
  Err("PostgrestError", <<"duplicate", "key", "value", "violates", "unique", "constraint">>,
      "23505")

\* The attempts that reached the backend.
Reached(log) == Cardinality({i \in DOMAIN log : log[i].reached})

DupInit ==
  /\ dKind = "flight_tasks"
  /\ dPc = "idle"
  /\ dAttempt = 0
  /\ dLog = <<>>
  /\ dCommitted = 0

DupIdle == DupInit

\* The proxied insert is called.
DupBegin(k) ==
  /\ dPc \in {"idle", "done"}
  /\ dKind' = k
  /\ dPc' = IF LoopCond(0) THEN "executing" ELSE "done"
  /\ dAttempt' = 0
  /\ dLog' = <<>>
  /\ dCommitted' = 0
  /\ UNCHANGED notDup

\* One pass of the loop: the insert is sent; the backend, if reached, commits
\* a row or refuses a duplicate key; the response, if it arrives, is the
\* backend's, otherwise fetch fails.  The error is classified and the insert
\* is sent again or the invocation returns.
DupAttempt(reaches, answered, onLine) ==
  /\ dPc = "executing"
  /\ LET refused == reaches /\ HasUniqueKey(dKind) /\ dCommitted >= 1
         error == IF ~reaches \/ ~answered THEN FetchError
                  ELSE IF refused THEN UniqueError
                  ELSE NoError
     IN /\ dLog' = Append(dLog, [reached |-> reaches, answered |-> reaches /\ answered])
        /\ dCommitted' = IF reaches /\ ~refused THEN dCommitted + 1 ELSE dCommitted
        /\ IF error # NoError /\ isRetryableError(error, onLine)
                /\ ShouldRetry(dAttempt, error, onLine)
                /\ LoopCond(NextAttempt(dAttempt))
             THEN /\ dPc' = "waiting"
                  /\ UNCHANGED dAttempt
             ELSE /\ dPc' = "done"
                  /\ UNCHANGED dAttempt
  /\ UNCHANGED dKind
  /\ UNCHANGED notDup

\* await wait(delay) is over: attempt++ and the loop goes round.
DupTimerFires ==
  /\ dPc = "waiting"
  /\ dAttempt' = NextAttempt(dAttempt)
  /\ dPc' = "executing"
  /\ UNCHANGED <<dKind, dLog, dCommitted>>
  /\ UNCHANGED notDup

DupNext ==
  \/ \E k \in CreateKinds : DupBegin(k)
  \/ \E reaches \in BOOLEAN, answered \in BOOLEAN, onLine \in BOOLEAN :
       DupAttempt(reaches, answered, onLine)
  \/ DupTimerFires

(***************************************************************************)
(* The company form: its list of tail numbers and the rows of              *)
(* company_tails its save leaves behind.                                   *)
(***************************************************************************)
ModalTails == {"N100", "N200"}

\* The company the form edits, and the id the backend gives a created one.
ModalCompanies == {"c1", "c2"}

NoCompany == "none"

\* What the two loops of onSubmit do to the rows of the company when every
\* call returns: each tail of the form is deleted, then each is inserted.
\* Rows whose tail is not in the form are not touched.
SyncTails(stored, tails) == (stored \ tails) \cup tails

CompIdle ==
  /\ cStored = [c \in ModalCompanies |-> {}]
  /\ cCompany = NoCompany
  /\ cPc = "closed"
  /\ cForm = {}
  /\ cSubmitted = {}
  /\ cResult = "none"

\* The company c1 exists with some tails registered; c2 does not exist yet.
CompInit ==
  /\ cStored \in [ModalCompanies -> SUBSET ModalTails]
  /\ cStored["c2"] = {}
  /\ cCompany = NoCompany
  /\ cPc = "closed"
  /\ cForm = {}
  /\ cSubmitted = {}
  /\ cResult = "none"

\* The modal is opened for a new company or for c1; loadTails fills the list
\* from db.companyTails.getByCompany unless the call throws (caught, the list
\* stays empty).
OpenCompanyForm(existing) ==
  /\ cPc = "closed"
  /\ cCompany' = IF existing THEN "c1" ELSE NoCompany
  /\ cForm' = IF existing /\ ~ChainThrows(Chains["companyTails_getByCompany"])
                THEN cStored["c1"] ELSE {}
  /\ cPc' = "editing"
  /\ cResult' = "none"
  /\ cSubmitted' = {}
  /\ UNCHANGED cStored
  /\ UNCHANGED notComp

addTail(newTail) ==
  /\ cPc = "editing"
  /\ newTail \notin cForm
  /\ cForm' = cForm \cup {newTail}
  /\ UNCHANGED <<cStored, cCompany, cPc, cSubmitted, cResult>>
  /\ UNCHANGED notComp

removeTail(tail) ==
  /\ cPc = "editing"
  /\ tail \in cForm
  /\ cForm' = cForm \ {tail}
  /\ UNCHANGED <<cStored, cCompany, cPc, cSubmitted, cResult>>
  /\ UNCHANGED notComp

\* onSubmit, from the click to onSuccess()/onClose() or to the alert.  The
\* company is saved first; a call that throws or returns an error ends the
\* handler in its catch.  The tails are handled only if the list is not empty.
SubmitCompany(user) ==
  /\ cPc = "editing"
  /\ cSubmitted' = cForm
  /\ LET saveOp == IF cCompany = NoCompany THEN "companies_create" ELSE "companies_update"
         target == IF cCompany = NoCompany THEN "c2" ELSE cCompany
     IN IF ~user
          THEN /\ cResult' = "no_user"
               /\ UNCHANGED <<cStored, cCompany, cPc, cForm>>
          ELSE IF ChainThrows(Chains[saveOp])
            THEN /\ cResult' = "error"
                 /\ UNCHANGED <<cStored, cCompany, cPc, cForm>>
            ELSE IF cForm = {}
              THEN /\ cResult' = "success"
                   /\ cCompany' = target
                   /\ cPc' = "closed"
                   /\ UNCHANGED <<cStored, cForm>>
              ELSE IF ChainThrows(Chains["companyTails_delete"])
                THEN /\ cResult' = "error"
                     /\ cCompany' = target
                     /\ UNCHANGED <<cStored, cPc, cForm>>
                ELSE IF ChainThrows(Chains["companyTails_create"])
                  THEN /\ cResult' = "error"
                       /\ cCompany' = target
                       /\ cStored' = [cStored EXCEPT ![target] = @ \ cForm]
                       /\ UNCHANGED <<cPc, cForm>>
                  ELSE /\ cResult' = "success"
                       /\ cCompany' = target
                       /\ cStored' = [cStored EXCEPT ![target] = SyncTails(@, cForm)]
                       /\ cPc' = "closed"
                       /\ UNCHANGED cForm
  /\ UNCHANGED notComp

\* A failed save leaves the modal open; the user may also close it.
CloseCompanyForm ==
  /\ cPc = "editing"
  /\ cPc' = "closed"
  /\ UNCHANGED <<cStored, cCompany, cForm, cSubmitted, cResult>>
  /\ UNCHANGED notComp

CompNext ==
  \/ \E existing \in BOOLEAN : OpenCompanyForm(existing)
  \/ \E t \in ModalTails : addTail(t)
  \/ \E t \in ModalTails : removeTail(t)
  \/ \E user \in BOOLEAN : SubmitCompany(user)
  \/ CloseCompanyForm

(***************************************************************************)
(* The App's authentication effect: initializeAuth with its retries, the   *)
(* mounted flag and the retry timer.                                       *)
(***************************************************************************)
\* The two forms of the effect: one awaits db.auth.getUser(), the other
\* supabase.auth.getSession() and then subscribes to onAuthStateChange.
AuthVariants == {"getUser", "getSession"}

\* What the auth call gives: a thrown or returned error, a user, or no user.
AuthAnswers == {"error", Null} \cup Users

AuthErrorText == "Unable to connect to authentication service. Please try again later."

\* Retry without end.
ShouldRetryAuthAlways(retryCount) == TRUE

ShouldRetryAuth(retryCount) == retryCount < 3

AuthDelay(retryCount) == Min(1000 * (2 ^ retryCount), 5000)

AuthIdle ==
  /\ iVariant = "getUser"
  /\ iMounted = TRUE
  /\ iPc = "idle"
  /\ iRetry = 0
  /\ iCalls = 0
  /\ iWaits = <<>>
  /\ iApp = [loading |-> TRUE, session |-> Null, authError |-> Null]
  /\ iAnswer = "none"
  /\ iSubscribed = FALSE

\* The component is rendered, its effect has not run yet.
AuthInit ==
  /\ iVariant \in AuthVariants
  /\ iMounted = TRUE
  /\ iPc = "idle"
  /\ iRetry = 0
  /\ iCalls = 0
  /\ iWaits = <<>>
  /\ iApp = [loading |-> TRUE, session |-> Null, authError |-> Null]
  /\ iAnswer = "none"
  /\ iSubscribed = FALSE

\* initializeAuth(retryCount) up to its await.
BeginAttempt(retryCount) ==
  IF ~iMounted
    THEN /\ iPc' = "stopped"
         /\ UNCHANGED <<iRetry, iCalls, iApp>>
    ELSE /\ iApp' = [iApp EXCEPT !.loading = TRUE, !.authError = Null]
         /\ iCalls' = iCalls + 1
         /\ iRetry' = retryCount
         /\ iPc' = "calling"

\* The effect runs: initializeAuth().
StartAuth ==
  /\ iPc = "idle"
  /\ BeginAttempt(0)
  /\ UNCHANGED <<iVariant, iMounted, iWaits, iAnswer, iSubscribed>>
  /\ UNCHANGED notAuth

\* The auth call settles: the rest of the try block, or the catch block.
AuthSettles(ans) ==
  /\ iPc = "calling"
  /\ iAnswer' = ans
  /\ IF ~iMounted
       THEN /\ iPc' = "stopped"
            /\ UNCHANGED <<iApp, iWaits, iSubscribed>>
       ELSE IF ans = "error"
         THEN IF ShouldRetryAuth(iRetry)
                THEN /\ iWaits' = Append(iWaits, AuthDelay(iRetry))
                     /\ iPc' = "waiting"
                     /\ UNCHANGED <<iApp, iSubscribed>>
                ELSE /\ iApp' = [loading |-> FALSE, session |-> Null,
                                 authError |-> AuthErrorText]
                     /\ iPc' = "stopped"
                     /\ UNCHANGED <<iWaits, iSubscribed>>
         ELSE /\ iApp' = [iApp EXCEPT !.session = ans, !.loading = FALSE]
              /\ iSubscribed' = (iVariant = "getSession")
              /\ iPc' = "stopped"
              /\ UNCHANGED iWaits
  /\ UNCHANGED <<iVariant, iMounted, iRetry, iCalls>>
  /\ UNCHANGED notAuth

\* The retry timer fires: initializeAuth(retryCount + 1).
AuthTimerFires ==
  /\ iPc = "waiting"
  /\ BeginAttempt(iRetry + 1)
  /\ UNCHANGED <<iVariant, iMounted, iWaits, iAnswer, iSubscribed>>
  /\ UNCHANGED notAuth

\* The effect's cleanup: mounted = false, and a pending retry timer is cleared.
Unmount ==
  /\ iMounted
  /\ iPc # "idle"
  /\ iMounted' = FALSE
  /\ iPc' = IF iPc = "waiting" THEN "stopped" ELSE iPc
  /\ UNCHANGED <<iVariant, iRetry, iCalls, iWaits, iApp, iAnswer, iSubscribed>>
  /\ UNCHANGED notAuth

\* The onAuthStateChange callback registered after a successful getSession.
AuthStateChange(s) ==
  /\ iSubscribed
  /\ iMounted
  /\ iApp' = [iApp EXCEPT !.session = s]
  /\ UNCHANGED <<iVariant, iMounted, iPc, iRetry, iCalls, iWaits, iAnswer, iSubscribed>>
  /\ UNCHANGED notAuth

AuthNext ==
  \/ StartAuth
  \/ \E ans \in AuthAnswers : AuthSettles(ans)
  \/ AuthTimerFires
  \/ Unmount
  \/ \E s \in {Null} \cup Users : AuthStateChange(s)

(***************************************************************************)
(* Specifications.                                                         *)
(***************************************************************************)
vars == <<retryVars, classVars, dbVars, extVars>>

ConcIdle == ConcInit

FormIdle == FormInit

SchemaIdle == SchemaInit
LockIdle == LockInit

\* -- the further components: at rest --
MoreIdle ==
  /\ TrigIdle
  /\ AdvIdle
  /\ FetchIdle
  /\ ListIdle
  /\ DupIdle
  /\ CompIdle
  /\ AuthIdle
\* -- end of the further components: at rest --

\* The added parts, at rest.
ExtIdle == ConcIdle /\ FormIdle /\ SchemaIdle /\ LockIdle /\ MoreIdle

RetryIdle ==
  /\ online = TRUE
  /\ pc = "idle"
  /\ attempt = 0
  /\ lastError = NoError
  /\ outcome = NoOutcome
  /\ facade = NoFacade
  /\ execCount = 0
  /\ delays = <<>>
  /\ starts = <<>>
  /\ fails = <<>>

InitRetry == RetryInit /\ ClassIdle /\ DbInit /\ ExtIdle
InitClassifier == ClassInit /\ RetryIdle /\ DbInit /\ ExtIdle
InitDb == DbInit /\ RetryIdle /\ ClassIdle /\ ExtIdle
InitConc ==
  ConcInit /\ RetryIdle /\ ClassIdle /\ DbInit /\ FormIdle /\ SchemaIdle /\ LockIdle /\ MoreIdle
InitForm ==
  FormInit /\ RetryIdle /\ ClassIdle /\ DbInit /\ ConcIdle /\ SchemaIdle /\ LockIdle /\ MoreIdle
InitSchema ==
  SchemaInit /\ RetryIdle /\ ClassIdle /\ DbInit /\ ConcIdle /\ FormIdle /\ LockIdle /\ MoreIdle
InitLock ==
  LockInit /\ RetryIdle /\ ClassIdle /\ DbInit /\ ConcIdle /\ FormIdle /\ SchemaIdle /\ MoreIdle

\* The retrying client and the facade.
SpecRetry == InitRetry /\ [][RetryNext]_vars

\* The same, where a backend call in flight completes, a backoff timer
\* fires and connectivity returns to an invocation suspended on 'online'.
FairSpecRetry ==
  /\ InitRetry
  /\ [][RetryNext]_vars
  /\ WF_vars(\E res \in Results : BackendReturns(res))
  /\ WF_vars(\E e \in Errors : BackendThrows(e))
  /\ WF_vars(TimerFires)
  /\ WF_vars(GoOnline /\ pc = "wait_online")

\* The classifier.
SpecClassifier == InitClassifier /\ [][ClassNext]_vars

\* The flights table, one write statement at a time.
SpecDb == InitDb /\ [][DbNext]_vars

\* The flights table, the transactions of two clients interleaved.
SpecConc == InitConc /\ [][ConcNext]_vars

\* The flight form, its request and the tables behind it.
SpecForm == InitForm /\ [][FormNext]_vars

\* The tables tied by foreign keys, one statement at a time.
SpecSchema == InitSchema /\ [][SchemaNext]_vars

\* flight_locks under two users' transactions and the clock.
SpecLock == InitLock /\ [][LockNext]_vars

\* -- the further components: specifications --
OldIdle ==
  RetryIdle /\ ClassIdle /\ DbInit /\ ConcIdle /\ FormIdle /\ SchemaIdle /\ LockIdle
InitTrig ==
  TrigInit /\ OldIdle /\ AdvIdle /\ FetchIdle /\ ListIdle /\ DupIdle /\ CompIdle /\ AuthIdle
SpecTrig == InitTrig /\ [][TrigNext]_vars
InitAdv ==
  AdvInit /\ OldIdle /\ TrigIdle /\ FetchIdle /\ ListIdle /\ DupIdle /\ CompIdle /\ AuthIdle
SpecAdv == InitAdv /\ [][AdvNext]_vars
InitFetch ==
  FetchInit /\ OldIdle /\ TrigIdle /\ AdvIdle /\ ListIdle /\ DupIdle /\ CompIdle /\ AuthIdle
SpecFetch == InitFetch /\ [][FetchNext]_vars
InitList ==
  ListInit /\ OldIdle /\ TrigIdle /\ AdvIdle /\ FetchIdle /\ DupIdle /\ CompIdle /\ AuthIdle
SpecList == InitList /\ [][ListNext]_vars
InitDup ==
  DupInit /\ OldIdle /\ TrigIdle /\ AdvIdle /\ FetchIdle /\ ListIdle /\ CompIdle /\ AuthIdle
SpecDup == InitDup /\ [][DupNext]_vars
InitComp ==
  CompInit /\ OldIdle /\ TrigIdle /\ AdvIdle /\ FetchIdle /\ ListIdle /\ DupIdle /\ AuthIdle
SpecComp == InitComp /\ [][CompNext]_vars
InitAuth ==
  AuthInit /\ OldIdle /\ TrigIdle /\ AdvIdle /\ FetchIdle /\ ListIdle /\ DupIdle /\ CompIdle
SpecAuth == InitAuth /\ [][AuthNext]_vars
\* -- end of the further components: specifications --

(***************************************************************************)
(* Properties of the retrying client.                                      *)
(***************************************************************************)
\* The attempts of the current invocation have all failed with errors the
\* classifier called retryable, and none is left.
Exhausted ==
  /\ pc = "done"
  /\ Len(fails) = MAX_RETRIES
  /\ \A i \in DOMAIN fails : fails[i].retryable

\* C1: within one invocation of a proxied builder method the backend
\* operation is executed at most MAX_RETRIES (3) times, whatever is thrown
\* or returned and however connectivity changes.
C1_AtMostMaxRetries == execCount <= MAX_RETRIES /\ Len(starts) = execCount

C1_Witness ==
  /\ pc = "done"
  /\ execCount = MAX_RETRIES
  /\ fails[1].how = "thrown"
  /\ fails[2].how = "returned"
  /\ starts[2].afterEvent

\* C2: when the first attempt fails with an error the classifier calls
\* non-retryable, thrown or returned, the operation has been executed exactly
\* once, no backoff wait has been made and the invocation is over.
C2_TerminalNotRetried ==
  (fails # <<>> /\ ~fails[1].retryable) =>
    (pc = "done" /\ execCount = 1 /\ delays = <<>> /\ Len(fails) = 1)

C2_Witness ==
  /\ pc = "done"
  /\ Len(fails) = 1
  /\ fails[1].how = "returned"
  /\ ~fails[1].retryable
  /\ outcome.error.code = "23514"

\* C3 (as amended): the waits of one invocation are 1000 ms after failed
\* attempt 0 and 2000 ms after failed attempt 1, each min(1000 * 2^k, 5000);
\* there is no wait after the third failed attempt, so at most two waits are
\* made, each >= the one before and none above 5000.
C3_WaitsAre1000Then2000 ==
  /\ Len(delays) <= 2
  /\ \A i \in DOMAIN delays : delays[i] = Min(1000 * (2 ^ (i - 1)), 5000)
  /\ \A i \in DOMAIN delays : delays[i] <= 5000 /\ (i > 1 => delays[i] >= delays[i - 1])
  /\ \A i \in DOMAIN fails : (fails[i].retryable /\ i < 3) => Len(delays) >= i
  /\ Exhausted => delays = <<1000, 2000>>

C3_Witness == Exhausted /\ delays = <<1000, 2000>>

\* C3 (as claimed): every failed attempt k with a retryable error is
\* followed by a wait of min(1000 * 2^k, 5000) ms, which gives the waits
\* 1000, 2000, 4000 for an invocation whose three attempts fail.
C3_Original ==
  \A i \in DOMAIN fails :
    fails[i].retryable =>
      (Len(delays) >= i /\ delays[i] = Min(1000 * (2 ^ (i - 1)), 5000))

\* C4: an invocation never raises to its caller, and one whose last attempt
\* failed (attempts exhausted, or a non-retryable error) resolves to a result
\* whose data is null and whose error is not.
C4_NeverRaises ==
  /\ outcome.kind # "raised"
  /\ (pc = "done" /\ Len(fails) = execCount) =>
       (outcome.kind = "resolved" /\ outcome.data = Null /\ outcome.error.type # "none")

C4_Witness ==
  /\ Exhausted
  /\ fails[3].how = "thrown"
  /\ outcome = Failure(lastError)

\* C5: every execution of the backend operation starts while
\* navigator.onLine is true; one whose connectivity check found the device
\* offline starts only from the 'online' event, and while an invocation is
\* suspended on that event the operation of its current attempt has not been
\* invoked.  This holds for the first attempt and for every retry.
C5_NoAttemptWhileOffline ==
  /\ \A i \in DOMAIN starts :
       starts[i].onLine /\ (starts[i].sawOffline => starts[i].afterEvent)
  /\ pc = "wait_online" => (~online /\ Len(starts) = attempt)

C5_Witness ==
  /\ Len(starts) = 2
  /\ starts[1].afterEvent
  /\ starts[2].afterEvent
  /\ pc = "executing"

\* C6: an invocation that has been made eventually returns, when backend
\* calls complete, timers fire and connectivity returns to an invocation
\* suspended on the 'online' event.
C6_EventuallyReturns ==
  (pc \in {"wait_online", "executing", "waiting"}) ~> (pc = "done")

C6_Witness ==
  /\ pc = "done"
  /\ execCount = MAX_RETRIES
  /\ starts[1].afterEvent
  /\ starts[3].afterEvent
  /\ outcome.data = "rows"

(***************************************************************************)
(* Properties of the classifier.                                           *)
(***************************************************************************)
TransientText(msg) ==
  \/ Includes(msg, <<"timeout">>)
  \/ Includes(msg, <<"network", "error">>)
  \/ Includes(msg, <<"failed", "to", "fetch">>)

TerminalText(msg) == msg \in {<<"permission", "denied">>, <<"not", "found">>}

\* C7 (as amended): an error whose message contains 'timeout', 'network
\* error' or 'failed to fetch' is retryable; an error whose message is
\* 'permission denied' or 'not found' is not retryable provided the device is
\* online, the error is not a TypeError and its code is not one of the
\* retryable codes.
C7_ClassifierVerdicts ==
  cApplied =>
    /\ TransientText(cError.message) => cVerdict
    /\ ( /\ TerminalText(cError.message)
         /\ cOnline
         /\ cError.type # "TypeError"
         /\ cError.code \notin retryableCodes ) => ~cVerdict

C7_Witness ==
  /\ cApplied
  /\ cError = Err("PostgrestError", <<"permission", "denied">>, "42501")
  /\ cOnline
  /\ ~cVerdict

\* C7 (as claimed): with no condition on connectivity, error class or code,
\* 'permission denied' and 'not found' are never retryable.
C7_Original ==
  cApplied =>
    /\ TransientText(cError.message) => cVerdict
    /\ TerminalText(cError.message) => ~cVerdict

(***************************************************************************)
(* Properties of the facade.                                               *)
(***************************************************************************)
\* C8: a db.* entity operation never throws or rejects to its caller; it
\* resolves to {data, error} with error a message or null, and data null
\* whenever error is not.
C8_FacadeNeverRejects ==
  /\ facade.state # "rejected"
  /\ facade.state = "resolved" => (facade.error # Null => facade.data = Null)

\* C9: when the attempts of the wrapped operation are used up by retryable
\* errors, the message dbQuery derives from the result is the connectivity
\* message.
C9_ExhaustedShowsConnectivity ==
  Exhausted => dbQuery(outcome).error = MsgConnectivity

(***************************************************************************)
(* Properties of the flights table.                                        *)
(***************************************************************************)
Max(a, b) == IF a >= b THEN a ELSE b

\* Two rows whose [start, end) periods have an instant in common.
SharesInstant(f, g) ==
  Max(f.start_date, g.start_date) < Min(f.end_date, g.end_date)

\* C10: no two distinct active flights of the same tail number have
\* overlapping [start, end) periods, after any sequence of inserts, updates
\* and deletes made one at a time.
C10_NoActiveOverlap ==
  \A f \in flights, g \in flights :
    ( /\ f.id # g.id
      /\ f.status = "active"
      /\ g.status = "active"
      /\ f.tail_number = g.tail_number ) => ~SharesInstant(f, g)

C10_Witness ==
  /\ lastWrite = [op |-> "update", outcome |-> "overlap"]
  /\ \E f \in flights, g \in flights :
       /\ f.id # g.id
       /\ f.status = "active"
       /\ g.status = "active"
       /\ f.tail_number = g.tail_number
       /\ f.end_date = g.start_date
       /\ f.start_date < f.end_date
       /\ g.start_date < g.end_date

(***************************************************************************)
(* Properties of the flights table under concurrent writes.                *)
(***************************************************************************)
\* C11: no two distinct active flights of the same tail number have
\* overlapping [start, end) periods among the committed rows, when the
\* statements of two clients are interleaved.
C11_NoActiveOverlapInterleaved ==
  \A f \in committed, g \in committed :
    ( /\ f.id # g.id
      /\ f.status = "active"
      /\ g.status = "active"
      /\ f.tail_number = g.tail_number ) => ~SharesInstant(f, g)

(***************************************************************************)
(* Properties of the flight form and the tables behind it.                 *)
(***************************************************************************)
\* The last request was refused by validate_flight_dates.
OverlapRejected(r) ==
  /\ r.state = "done"
  /\ r.outcome.error \in {OverlapError, FormattedError(OverlapError)}

\* The last request was made by onSubmit (handleCancel sends the status only).
FromOnSubmit(r) == r.state # "none" /\ "start_date" \in DOMAIN r.data

\* The audit_logs rows written for the last request.
AuditsOf(r) ==
  {i \in DOMAIN fAudit :
     /\ fAudit[i].action = (IF r.kind = "update" THEN "update" ELSE "create")
     /\ Patch(fAudit[i].new, [id |-> 0]) = Patch([id |-> 0] @@ r.data, [id |-> 0])}

\* C12: a create of an active flight that overlaps an active flight of the
\* same tail number inserts no row, is executed once, and hands its caller
\* {data: null, error: the overlap message}.
C12_OverlappingCreateRejected ==
  (req.kind = "insert" /\ OverlapRejected(req)) =>
    /\ ~Wrote(req)
    /\ Executions(req) = 1
    /\ req.facade.state = "resolved"
    /\ req.facade.data = Null
    /\ req.facade.error = MsgOverlap

C13_RowsValid ==
  \A f \in fRows :
    /\ f.end_date >= f.start_date
    /\ f.start_airport # f.end_airport
    /\ f.status \in {"active", "cancelled"}

C13_NoWriteForInvalidDates ==
  FromOnSubmit(req) => req.data.end_date >= req.data.start_date

C13_RejectedLeavesTable ==
  ( /\ req.state = "pending"
    /\ req' # req
    /\ FromOnSubmit(req)
    /\ CheckViolation(req.data) # "ok" ) =>
      /\ fRows' = fRows
      /\ (req.kind = "insert" \/ fRows # {}) => ~Wrote(req')

\* C13: every flights row has end_date >= start_date, start_airport #
\* end_airport and status active or cancelled; the execution of a create or
\* update whose row breaks one of these leaves the table as it was, and
\* fails unless it is an update that finds no row to write; and
\* every write onSubmit issues has end_date >= start_date (a submission with
\* the end before the start issues none).
C13_ConstraintsHold ==
  /\ [](C13_RowsValid /\ C13_NoWriteForInvalidDates)
  /\ [][C13_RejectedLeavesTable]_vars

C13_Witness ==
  /\ form.report = "invalid"
  /\ req.state = "done"
  /\ req.outcome.error = ConstraintError("flights_airports_check")
  /\ fRows # {}

\* C14: a flight update that succeeded has exactly one audit_logs row with
\* action 'update' and changes.new equal to the update submitted.
C14_UpdateAuditedOnce ==
  (Wrote(req) /\ req.kind = "update" /\ fRows # {}) =>
    Cardinality(AuditsOf(req)) = 1

\* C15: a flight creation that succeeded, its row still in the table, has
\* exactly one audit_logs row with action 'create' for the created row, and
\* a flight write that failed has none.
C15_CreateAuditedOnce ==
  /\ ( /\ Wrote(req)
       /\ req.kind = "insert"
       /\ \E f \in fRows : Patch(f, [id |-> 0]) = Patch([id |-> 0] @@ req.data, [id |-> 0]) )
       => Cardinality(AuditsOf(req)) = 1
  /\ (req.state = "done" /\ ~Wrote(req)) => AuditsOf(req) = {}

NoDanglingFlightId ==
  \A r \in flight_tasks \cup audit_logs \cup flight_locks : r.flight_id \in flightIds

\* C17: every flight_tasks, audit_logs and flight_locks row references an
\* existing flight, and a delete of a flight goes through and leaves no row
\* of these tables with its id.
C17_FlightDeleteCascades ==
  /\ NoDanglingFlightId
  /\ (lastStmt.op = "delete_flight") =>
       /\ lastStmt.outcome = "ok"
       /\ lastStmt.id \notin flightIds
       /\ \A r \in flight_tasks \cup audit_logs \cup flight_locks :
            r.flight_id # lastStmt.id

C17_Witness ==
  /\ lastStmt.op = "delete_flight"
  /\ lastStmt.outcome = "ok"
  /\ lastStmt.cascaded = 4
  /\ flightIds # {}

\* C18: a delete of a company that row level security lets through succeeds
\* whatever company_tails rows the company owns, and leaves no company_tails
\* row with its id.
C18_CompanyDeleteCascades ==
  (lastStmt.op = "delete_company" /\ lastStmt.outcome # "no_rows") =>
    /\ lastStmt.outcome = "ok"
    /\ lastStmt.id \notin companies
    /\ \A r \in company_tails : r.company_id # lastStmt.id

(***************************************************************************)
(* Properties of flight_locks.                                             *)
(***************************************************************************)
\* C19: flight_locks never holds two rows with the same flight id, however
\* the users' lock acquisitions interleave.
C19_OneLockPerFlight ==
  \A r1, r2 \in lockRows : r1.flight_id = r2.flight_id => r1 = r2

C19_Witness ==
  /\ lastLock.op = "insert"
  /\ lastLock.outcome = "unique_violation"
  /\ lastLock.waited
  /\ \E r \in lockRows : r.user_id # lastLock.by

\* C20: right after an insert or update on flight_locks has run the cleanup
\* pass, no flight_locks row is older than 15 minutes.
C20_NoOldLockAfterCleanup ==
  (lastLock.op \in {"insert", "update"} /\ lastLock.outcome = "ok") =>
    \A r \in lockRows : ~LockIsOld(r, now)

(***************************************************************************)
(* Properties of one row write.                                            *)
(***************************************************************************)
\* C26: a write is rejected for overlap only if its row is active and shares
\* an instant of its [start, end) period with another active row of the same
\* tail number.
C26_OverlapOnlyForActiveSharedInstant ==
  (tVerdict = "overlap") =>
    /\ tWrite.new.status = "active"
    /\ \E f \in tRows :
         /\ f.id # tWrite.new.id
         /\ f.status = "active"
         /\ f.tail_number = tWrite.new.tail_number
         /\ SharesInstant(tWrite.new, f)

(***************************************************************************)
(* Properties of the flight form's saves.                                  *)
(***************************************************************************)
\* C27: a save of the flight form that changes the table leaves every
\* cancelled flight cancelled.
C27_SaveKeepsStatus ==
  [][ (req.state = "pending" /\ FromOnSubmit(req') /\ Wrote(req')) =>
        \A f \in fRows, g \in fRows' :
          (f.id = g.id /\ f.status = "cancelled") => g.status = "cancelled" ]_vars

(***************************************************************************)
(* Properties of audit_logs.                                               *)
(***************************************************************************)
\* C22: no step modifies or removes an audit_logs row whose flight is still
\* there after the step: the audit rows of a flight that exists only grow.
C22_AuditAppendOnly ==
  [][ \A r \in audit_logs : r.flight_id \in flightIds' => r \in audit_logs' ]_vars

C22_Witness ==
  /\ lastStmt.op \in {"delete_audit", "update_audit"}
  /\ lastStmt.outcome = "no_rows"
  /\ Cardinality(audit_logs) = 2
  /\ \E r \in audit_logs : r.id = lastStmt.id /\ r.flight_id \in flightIds

(***************************************************************************)
(* Properties of the ownership of flight_locks rows.                       *)
(***************************************************************************)
\* C29: every flight_locks row a step adds carries the user_id of the user
\* whose statement the step is, and every row a step removes or replaces
\* was that user's.
C29_OwnLocksOnly ==
  [][ /\ \A r \in lockRows' \ lockRows : r.user_id = lastLock'.by
      /\ \A r \in lockRows \ lockRows' : r.user_id = lastLock'.by ]_vars

C29_Witness ==
  /\ lastLock.op = "update"
  /\ lastLock.outcome = "ok"
  /\ \E r \in lockRows : r.user_id # lastLock.by /\ LockIsOld(r, now)
  /\ \E r \in lockRows : r.user_id = lastLock.by /\ r.locked_at = now

C25_SameOrderedAnswer == Len(lAnswers) = 2 => lAnswers[1] = lAnswers[2]

(***************************************************************************)
(* Properties of a retried create.                                         *)
(***************************************************************************)
\* C23: one create commits at most MAX_RETRIES rows: one for each attempt
\* that reached the backend, whether or not its response arrived, except
\* that a create of a company tail commits at most one row.
C23_RetriedCreateCommits ==
  /\ Len(dLog) <= MAX_RETRIES
  /\ dCommitted <= Reached(dLog)
  /\ dKind = "company_tails" => dCommitted <= 1
  /\ dKind # "company_tails" => dCommitted = Reached(dLog)

C23_Witness ==
  /\ dPc = "done"
  /\ dKind = "flight_tasks"
  /\ dCommitted = MAX_RETRIES
  /\ \A i \in DOMAIN dLog : ~dLog[i].answered

\* C23 as stated: for every kind of create, company tails included, each
\* attempt that reached the backend committed a row.
C23_Original == dCommitted = Reached(dLog)

FairSpecAuth ==
  /\ InitAuth
  /\ [][AuthNext]_vars
  /\ WF_vars(StartAuth)
  /\ WF_vars(AuthTimerFires)
  /\ WF_vars(\E ans \in AuthAnswers : AuthSettles(ans))

\* C30: the authentication initialisation calls the auth service at most 4
\* times, the waits between the calls being 1000, 2000 and 4000 ms, and
\* stops; when it stops in a mounted component loading is false and there is
\* a session, or authError is set, or the service answered without error
\* that nobody is signed in (no session and no authError); once the
\* component is unmounted no call is started and no state is updated.
C30_AuthInitStops ==
  /\ [](iCalls <= 4)
  /\ [](Len(iWaits) <= 3 /\ \A k \in DOMAIN iWaits : iWaits[k] = <<1000, 2000, 4000>>[k])
  /\ [][ (iPc # "stopped" /\ iPc' = "stopped" /\ iMounted') =>
          /\ iApp'.loading = FALSE
          /\ \/ iApp'.session # Null
             \/ iApp'.authError # Null
             \/ iAnswer' = Null ]_vars
  /\ [][ ~iMounted => iApp' = iApp /\ iCalls' = iCalls ]_vars
  /\ <>(iPc = "stopped")

\* The fourth call failed after waits of 1000, 2000 and 4000 ms.
C30_Witness ==
  /\ iPc = "stopped"
  /\ iMounted
  /\ iCalls = 4
  /\ iWaits = <<1000, 2000, 4000>>
  /\ iApp = [loading |-> FALSE, session |-> Null, authError |-> AuthErrorText]

\* C30 as stated: initialisation that stops in a mounted component leaves
\* loading false and a session or the authError message.
C30_Original ==
  [][ (iPc # "stopped" /\ iPc' = "stopped" /\ iMounted') =>
        /\ iApp'.loading = FALSE
        /\ (iApp'.session # Null \/ iApp'.authError # Null) ]_vars

====
